---- MODULE Spec2Model ----
(***************************************************************************)
(* State-machine model of the crash-game backend: the payment reconciler   *)
(* (deposit / withdrawal intents, pollers, gateway webhook, admin manual   *)
(* transitions), the ledger routes (bet, cashout, refund) and the round    *)
(* engine with its seed commitments.                                       *)
(*                                                                         *)
(* Database model.  PostgreSQL at its default READ COMMITTED level: a      *)
(* plain SELECT reads the committed state at the moment it runs; an UPDATE *)
(* takes the row lock and holds it until COMMIT.  A transaction is hence   *)
(* modelled by one step per non-locking read that precedes its first row   *)
(* lock and one atomic step from that lock to COMMIT.  Statements sent     *)
(* through the pool outside a transaction autocommit one by one.           *)
(***************************************************************************)
EXTENDS Integers, Sequences, FiniteSets, TLC

VARIABLES
    balance,     \* users.balance, per user
    payments,    \* payments table: intent id -> row, or NoRow
    req,         \* POST /payments/deposit and /withdraw requests in flight, per intent slot
    poll,        \* background polling job of each intent
    gw,          \* the gateway's own status of each transaction
    wh,          \* the POST /payments/zils-webhook callback in flight
    whCount,     \* number of callbacks the gateway has delivered
    adminOps,    \* number of admin manual transitions performed
    direct,      \* POST /users/deposit and /users/withdraw requests in flight
    schema,      \* which of the columns and status values the payment statements name exist
    classified,  \* a gateway status string and what each reconciliation path makes of it
    crashCalc,   \* a hash prefix and a seed, and the crash points computed from them
    limiter,     \* a RateLimiter: its store, and the checks made on it
    acct,        \* per intent: what the handlers did to the balance on its account
    now,             \* Date.now(), in ms since the engine started
    currentRound,    \* gameEngine: currentRound (NoRound for null)
    disposed,        \* gameEngine: disposed
    pendingSeedObj,  \* gameEngine: pendingSeedObj (NoSeedObj for null)
    roundCount,      \* rounds created so far; crypto.randomUUID() yields 1, 2, ...
    randCount,       \* crypto.randomBytes(32) draws so far
    seedMaster,      \* whether SEED_MASTER is configured
    emitted,         \* per round: what the listeners of gameEngine.emitter have been called with
    hStart,          \* per round: the server's 'roundStarted' listener in flight
    hCrash,          \* per round: the server's 'roundCrashed' listener in flight
    ens,             \* per caller: ensureNextCommitExists in flight
    rounds,          \* rounds table
    seed_commits,    \* seed_commits table
    sent,            \* per round: what io.emit has delivered to the subscribers
    boot,            \* position of server.js start() / gracefulShutdown()
    bets,            \* bets table
    startReq,        \* POST /game/start requests in flight
    cashReq,         \* POST /game/cashout requests in flight
    cashoutTimestamps, \* the cashout rate limiter's map
    roundAcct        \* per round: what the routes debited and credited on its account

fnVars == <<classified, crashCalc, limiter>>
payVars == <<payments, req, poll, gw, wh, whCount, adminOps, direct, acct, schema, fnVars>>
engVars == <<now, currentRound, disposed, pendingSeedObj, roundCount, randCount, seedMaster,
             emitted, hStart, hCrash, ens, rounds, seed_commits, sent, boot>>
betVars == <<bets, startReq, cashReq, cashoutTimestamps, roundAcct>>
vars == <<balance, payVars, engVars, betVars>>

(***************************************************************************)
(* Bounds of the model.                                                    *)
(***************************************************************************)
MaxIntents == 2      \* payment intents (request slots)
MaxPolls == 2        \* stands for MAX_POLLS = 60 polling attempts
MaxWebhooks == 2     \* gateway callbacks delivered
MaxAdminOps == 1     \* admin manual transitions
MaxDirect == 3       \* direct /users/deposit and /users/withdraw requests

Users == {"u1", "u2"}
PayUser == "u1"
\* money is counted in hundredths (users.balance is NUMERIC with two decimals)
Kwacha == 100
InitialBalance == 10 * Kwacha
Amounts == {10 * Kwacha}
DirectAmounts == {5 * Kwacha, 10 * Kwacha}

WITHDRAWAL_MIN == 5 * Kwacha
WITHDRAWAL_MAX == 5000 * Kwacha
DEPOSIT_MAX == 500000 * Kwacha

Intents == 1..MaxIntents
NoRow == [type |-> "none", amount |-> 0, status |-> "none", user |-> "none"]

(***************************************************************************)
(* Gateway status strings.  Upper models String.toUpperCase on the strings *)
(* the model draws from; comparisons the code makes on the lower-cased     *)
(* string are written on the upper-cased one.                              *)
(***************************************************************************)
GatewayStatuses ==
    {"SUCCESSFUL", "SUCCESS", "CONFIRMED", "COMPLETED", "OK",
     "FAILED", "FAILURE", "ERROR", "REJECTED", "DECLINED",
     "PENDING", "EXPIRED", "TIMEOUT", "UNKNOWN", "successful", "failed"}

\* the answers the gateway of the model settles a transaction with
GatewayOutcomes == {"SUCCESSFUL", "SUCCESS", "FAILED", "EXPIRED"}

Upper(s) ==
    CASE s = "successful" -> "SUCCESSFUL"
      [] s = "failed" -> "FAILED"
      [] OTHER -> s

\* pollWithdrawalStatus: ['confirmed','completed','success'].includes(status.toLowerCase())
WithdrawPollClass(s) ==
    IF Upper(s) \in {"CONFIRMED", "COMPLETED", "SUCCESS"} THEN "confirmed"
    ELSE IF Upper(s) \in {"FAILED", "ERROR", "REJECTED"} THEN "failed"
    ELSE "pending"

\* pollDepositStatus: membership tests on status.toUpperCase()
DepositPollClass(s) ==
    IF Upper(s) \in {"CONFIRMED", "COMPLETED", "SUCCESS", "SUCCESSFUL", "OK"} THEN "confirmed"
    ELSE IF Upper(s) \in {"FAILED", "ERROR", "REJECTED", "DECLINED"} THEN "failed"
    ELSE "pending"

\* statusUpper.includes('SUCCESS') etc., on the strings of GatewayStatuses
Includes(s, sub) ==
    CASE sub = "SUCCESS" -> s \in {"SUCCESS", "SUCCESSFUL"}
      [] sub = "FAIL" -> s \in {"FAILED", "FAILURE"}
      [] sub = "TIMEOUT" -> s = "TIMEOUT"
      [] OTHER -> FALSE

\* zils-webhook: newStatus from the callback's status string
WebhookNewStatus(s) ==
    LET u == Upper(s) IN
    IF Includes(u, "SUCCESS") \/ u = "CONFIRMED" \/ u = "COMPLETED" \/ u = "OK" THEN "confirmed"
    ELSE IF Includes(u, "FAIL") \/ u = "FAILED" \/ u = "ERROR" THEN "failed"
    ELSE IF u = "EXPIRED" \/ Includes(u, "TIMEOUT") THEN "expired"
    ELSE "pending"

\* zils-webhook: ['confirmed','completed','failed','expired'].includes(payment.status)
WebhookAlreadyProcessed(status) ==
    status \in {"confirmed", "completed", "failed", "expired"}

\* the three paths that read a gateway status string, each with its classification
ClassifyPaths == {"withdrawPoll", "depositPoll", "webhook"}
ClassOf(path, s) ==
    CASE path = "withdrawPoll" -> WithdrawPollClass(s)
      [] path = "depositPoll" -> DepositPollClass(s)
      [] path = "webhook" -> WebhookNewStatus(s)

Unclassified(s) == [input |-> s, class |-> [p \in ClassifyPaths |-> "none"]]

\* one path classifies the status string
Classify(path) ==
    /\ classified.input # "NONE"
    /\ classified.class[path] = "none"
    /\ classified' = [classified EXCEPT !.class[path] = ClassOf(path, classified.input)]
    /\ UNCHANGED <<balance, payments, req, poll, gw, wh, whCount, adminOps, direct, acct, schema,
                   crashCalc, limiter, engVars, betVars>>

NextClassify == \E path \in ClassifyPaths : Classify(path)

(***************************************************************************)
(* CREATE TABLE IF NOT EXISTS leaves a table that exists as it is.  The     *)
(* init-db route creates users with the timestamp column updatedat and      *)
(* payments with CHECK (status IN ('pending', 'processing', 'completed',    *)
(* 'failed', 'expired')); statements of the payment routes name             *)
(* users.updated_at and write the status 'confirmed'.  schema says whether  *)
(* the database the server runs on has that column and admits that value;   *)
(* a statement that names what is missing throws.                           *)
(***************************************************************************)
Schemas == [usersUpdatedAt : BOOLEAN, statusConfirmed : BOOLEAN]
RepoSchema == [usersUpdatedAt |-> FALSE, statusConfirmed |-> FALSE]

\* UPDATE users SET ..., updated_at = NOW() succeeds
UsersHasUpdatedAt == schema.usersUpdatedAt

\* the CHECK on payments.status lets the value s through
StatusCheckAdmits(s) ==
    \/ s \in {"pending", "processing", "completed", "failed", "expired"}
    \/ s = "confirmed" /\ schema.statusConfirmed

\* the pending-intent query of /deposit and /withdraw (all rows of the model are recent)
HasPending(user, type) ==
    \E j \in Intents :
        /\ payments[j].user = user
        /\ payments[j].type = type
        /\ payments[j].status \in {"pending", "processing"}

ReqIdle == [pc |-> "none", type |-> "none", amount |-> 0, resp |-> 0]
PollOff == [pc |-> "off", attempt |-> 0]
WhIdle == [pc |-> "none", pid |-> 0, newStatus |-> "none"]
DirectIdle == [pc |-> "none", kind |-> "none", amount |-> 0, resp |-> 0]
AcctZero == [debits |-> 0, credits |-> 0, refunds |-> 0, everConfirmed |-> FALSE, gatewaySent |-> FALSE]

\* request slots are taken in order
FreeSlot(i) ==
    /\ req[i].pc = "none"
    /\ \A j \in Intents : j < i => req[j].pc # "none"

Credit(u, a) == [balance EXCEPT ![u] = @ + a]
Debit(u, a) == [balance EXCEPT ![u] = @ - a]

SetStatus(i, s) == [payments EXCEPT ![i].status = s]
NoteStatus(i, s) ==
    IF s = "confirmed" THEN [acct EXCEPT ![i].everConfirmed = TRUE] ELSE acct

InitPayments ==
    /\ payments = [i \in Intents |-> NoRow]
    /\ req = [i \in Intents |-> ReqIdle]
    /\ poll = [i \in Intents |-> PollOff]
    /\ gw = [i \in Intents |-> "NONE"]
    /\ wh = WhIdle
    /\ whCount = 0
    /\ adminOps = 0
    /\ direct = [d \in 1..MaxDirect |-> DirectIdle]
    /\ acct = [i \in Intents |-> AcctZero]

(***************************************************************************)
(* POST /payments/withdraw                                                 *)
(***************************************************************************)
\* the balance read and check, autocommitted on the pool
WithdrawCheck(i, a) ==
    /\ FreeSlot(i)
    /\ a >= WITHDRAWAL_MIN /\ a <= WITHDRAWAL_MAX
    /\ IF balance[PayUser] < a
         THEN req' = [req EXCEPT ![i] = [pc |-> "done", type |-> "withdraw", amount |-> a, resp |-> 402]]
         ELSE req' = [req EXCEPT ![i] = [pc |-> "checked", type |-> "withdraw", amount |-> a, resp |-> 0]]
    /\ UNCHANGED <<balance, payments, poll, gw, wh, whCount, adminOps, direct, acct, schema, fnVars, engVars, betVars>>

\* zils.withdrawal: the disbursement request, before any debit
WithdrawGateway(i) ==
    /\ req[i].pc = "checked"
    /\ \/ /\ req' = [req EXCEPT ![i].pc = "called"]
          /\ gw' = [gw EXCEPT ![i] = "PENDING"]
          /\ acct' = [acct EXCEPT ![i].gatewaySent = TRUE]
       \/ /\ req' = [req EXCEPT ![i].pc = "done", ![i].resp = 400]
          /\ UNCHANGED <<gw, acct>>
    /\ UNCHANGED <<balance, payments, poll, wh, whCount, adminOps, direct, schema, fnVars, engVars, betVars>>

\* first statement of the transaction: the pending-withdrawal query
WithdrawPendingCheck(i) ==
    /\ req[i].pc = "called"
    /\ IF HasPending(PayUser, "withdraw")
         THEN req' = [req EXCEPT ![i].pc = "done", ![i].resp = 409]
         ELSE req' = [req EXCEPT ![i].pc = "pendingOk"]
    /\ UNCHANGED <<balance, payments, poll, gw, wh, whCount, adminOps, direct, acct, schema, fnVars, engVars, betVars>>

\* UPDATE users SET balance = balance - $1, updated_at = NOW(); INSERT payments
\* 'processing'; COMMIT; then pollWithdrawalStatus is started.  If the UPDATE throws, the
\* transaction rolls back and the route answers 500.
WithdrawCommit(i) ==
    /\ req[i].pc = "pendingOk"
    /\ req[i].type = "withdraw"
    /\ IF UsersHasUpdatedAt
         THEN /\ balance' = Debit(PayUser, req[i].amount)
              /\ payments' = [payments EXCEPT ![i] =
                      [type |-> "withdraw", amount |-> req[i].amount, status |-> "processing", user |-> PayUser]]
              /\ acct' = [acct EXCEPT ![i].debits = @ + 1]
              /\ req' = [req EXCEPT ![i].pc = "done", ![i].resp = 202]
              /\ poll' = [poll EXCEPT ![i] = [pc |-> "run", attempt |-> 0]]
         ELSE /\ req' = [req EXCEPT ![i].pc = "done", ![i].resp = 500]
              /\ UNCHANGED <<balance, payments, acct, poll>>
    /\ UNCHANGED <<gw, wh, whCount, adminOps, direct, schema, fnVars, engVars, betVars>>

(***************************************************************************)
(* POST /payments/deposit                                                  *)
(***************************************************************************)
DepositPendingCheck(i, a) ==
    /\ FreeSlot(i)
    /\ a <= DEPOSIT_MAX
    /\ IF HasPending(PayUser, "deposit")
         THEN req' = [req EXCEPT ![i] = [pc |-> "done", type |-> "deposit", amount |-> a, resp |-> 409]]
         ELSE req' = [req EXCEPT ![i] = [pc |-> "pendingOk", type |-> "deposit", amount |-> a, resp |-> 0]]
    /\ UNCHANGED <<balance, payments, poll, gw, wh, whCount, adminOps, direct, acct, schema, fnVars, engVars, betVars>>

\* zils.deposit inside the transaction, INSERT payments 'pending', COMMIT; then
\* pollDepositStatus is started.  A gateway error rolls back and answers 500.
DepositCommit(i) ==
    /\ req[i].pc = "pendingOk"
    /\ req[i].type = "deposit"
    /\ \/ /\ payments' = [payments EXCEPT ![i] =
                [type |-> "deposit", amount |-> req[i].amount, status |-> "pending", user |-> PayUser]]
          /\ gw' = [gw EXCEPT ![i] = "PENDING"]
          /\ acct' = [acct EXCEPT ![i].gatewaySent = TRUE]
          /\ req' = [req EXCEPT ![i].pc = "done", ![i].resp = 202]
          /\ poll' = [poll EXCEPT ![i] = [pc |-> "run", attempt |-> 0]]
       \/ /\ req' = [req EXCEPT ![i].pc = "done", ![i].resp = 500]
          /\ UNCHANGED <<payments, gw, acct, poll>>
    /\ UNCHANGED <<balance, wh, whCount, adminOps, direct, schema, fnVars, engVars, betVars>>

(***************************************************************************)
(* The gateway settles a transaction once; its answer then stays.          *)
(***************************************************************************)
GatewayResolve(i, s) ==
    /\ gw[i] = "PENDING"
    /\ s \in GatewayOutcomes
    /\ gw' = [gw EXCEPT ![i] = s]
    /\ UNCHANGED <<balance, payments, req, poll, wh, whCount, adminOps, direct, acct, schema, fnVars, engVars, betVars>>

(***************************************************************************)
(* pollWithdrawalStatus: one loop iteration                                *)
(***************************************************************************)
NextAttempt(i) ==
    [pc |-> IF poll[i].attempt + 1 = MaxPolls THEN "done" ELSE "run",
     attempt |-> poll[i].attempt + 1]

\* checkTransactionStatus throws: caught by the loop's catch, polling continues
PollStatusCheckThrows(i) ==
    /\ poll[i].pc = "run"
    /\ poll' = [poll EXCEPT ![i] = NextAttempt(i)]
    /\ UNCHANGED <<balance, payments, req, gw, wh, whCount, adminOps, direct, acct, schema, fnVars, engVars, betVars>>

PollWithdrawal(i) ==
    /\ poll[i].pc = "run"
    /\ payments[i].type = "withdraw"
    /\ LET class == WithdrawPollClass(gw[i])
           attempt == poll[i].attempt + 1
       IN  CASE class = "confirmed" /\ StatusCheckAdmits("confirmed") ->
                   /\ payments' = SetStatus(i, "confirmed")
                   /\ acct' = NoteStatus(i, "confirmed")
                   /\ poll' = [poll EXCEPT ![i] = [pc |-> "done", attempt |-> attempt]]
                   /\ UNCHANGED balance
             [] class = "failed" /\ UsersHasUpdatedAt ->
                   /\ payments' = SetStatus(i, "failed")
                   /\ balance' = Credit(payments[i].user, req[i].amount)
                   /\ acct' = [acct EXCEPT ![i].refunds = @ + 1]
                   /\ poll' = [poll EXCEPT ![i] = [pc |-> "done", attempt |-> attempt]]
             [] class \in {"confirmed", "failed"} ->
                   \* the statement throws: the loop's catch logs and polling goes on
                   /\ poll' = [poll EXCEPT ![i] = NextAttempt(i)]
                   /\ UNCHANGED <<balance, payments, acct>>
             [] OTHER ->
                   IF attempt = MaxPolls
                     THEN /\ payments' = SetStatus(i, "expired")
                          /\ poll' = [poll EXCEPT ![i] = [pc |-> "refund", attempt |-> attempt]]
                          /\ UNCHANGED <<balance, acct>>
                     ELSE /\ poll' = [poll EXCEPT ![i] = [pc |-> "run", attempt |-> attempt]]
                          /\ UNCHANGED <<balance, payments, acct>>
    /\ UNCHANGED <<req, gw, wh, whCount, adminOps, direct, schema, fnVars, engVars, betVars>>

\* second statement of the timeout branch: the refund, in its own autocommit
PollWithdrawalTimeoutRefund(i) ==
    /\ poll[i].pc = "refund"
    /\ IF UsersHasUpdatedAt
         THEN /\ balance' = Credit(payments[i].user, req[i].amount)
              /\ acct' = [acct EXCEPT ![i].refunds = @ + 1]
         ELSE UNCHANGED <<balance, acct>>
    /\ poll' = [poll EXCEPT ![i].pc = "done"]
    /\ UNCHANGED <<payments, req, gw, wh, whCount, adminOps, direct, schema, fnVars, engVars, betVars>>

(***************************************************************************)
(* pollDepositStatus: one loop iteration                                   *)
(***************************************************************************)
PollDeposit(i) ==
    /\ poll[i].pc = "run"
    /\ payments[i].type = "deposit"
    /\ LET class == DepositPollClass(gw[i])
           attempt == poll[i].attempt + 1
       IN  CASE class = "confirmed" /\ StatusCheckAdmits("confirmed") ->
                   /\ payments' = SetStatus(i, "confirmed")
                   /\ balance' = Credit(payments[i].user, req[i].amount)
                   /\ acct' = [acct EXCEPT ![i].credits = @ + 1, ![i].everConfirmed = TRUE]
                   /\ poll' = [poll EXCEPT ![i] = [pc |-> "done", attempt |-> attempt]]
             [] class = "confirmed" ->
                   \* the transaction rolls back; the catch around it returns
                   /\ poll' = [poll EXCEPT ![i] = [pc |-> "done", attempt |-> attempt]]
                   /\ UNCHANGED <<balance, payments, acct>>
             [] class = "failed" ->
                   /\ payments' = SetStatus(i, "failed")
                   /\ poll' = [poll EXCEPT ![i] = [pc |-> "done", attempt |-> attempt]]
                   /\ UNCHANGED <<balance, acct>>
             [] OTHER ->
                   IF attempt = MaxPolls
                     THEN /\ payments' = SetStatus(i, "expired")
                          /\ poll' = [poll EXCEPT ![i] = [pc |-> "done", attempt |-> attempt]]
                          /\ UNCHANGED <<balance, acct>>
                     ELSE /\ poll' = [poll EXCEPT ![i] = [pc |-> "run", attempt |-> attempt]]
                          /\ UNCHANGED <<balance, payments, acct>>
    /\ UNCHANGED <<req, gw, wh, whCount, adminOps, direct, schema, fnVars, engVars, betVars>>

(***************************************************************************)
(* POST /payments/zils-webhook                                             *)
(***************************************************************************)
\* the payment lookup and the already-processed check, outside the transaction
WebhookRead(i) ==
    /\ wh.pc = "none"
    /\ whCount < MaxWebhooks
    /\ whCount' = whCount + 1
    /\ payments[i] # NoRow
    /\ gw[i] \in GatewayStatuses
    /\ IF WebhookAlreadyProcessed(payments[i].status)
         THEN wh' = WhIdle
         ELSE wh' = [pc |-> "tx", pid |-> i, newStatus |-> WebhookNewStatus(gw[i])]
    /\ UNCHANGED <<balance, payments, req, poll, gw, adminOps, direct, acct, schema, fnVars, engVars, betVars>>

\* the transaction: UPDATE payments SET status = newStatus, then credit or refund; if
\* the UPDATE throws, the transaction rolls back and the route answers 500
WebhookCommit ==
    /\ wh.pc = "tx"
    /\ LET i == wh.pid
           s == wh.newStatus
           row == payments[i]
       IN  IF ~StatusCheckAdmits(s)
             THEN UNCHANGED <<balance, payments, acct>>
             ELSE
           /\ payments' = SetStatus(i, s)
           /\ IF row.type = "deposit" /\ s = "confirmed"
                THEN /\ balance' = Credit(row.user, row.amount)
                     /\ acct' = [acct EXCEPT ![i].credits = @ + 1, ![i].everConfirmed = TRUE]
                ELSE IF s = "failed" /\ row.type = "withdraw"
                THEN /\ balance' = Credit(row.user, row.amount)
                     /\ acct' = [acct EXCEPT ![i].refunds = @ + 1]
                ELSE /\ UNCHANGED balance
                     /\ acct' = NoteStatus(i, s)
    /\ wh' = WhIdle
    /\ UNCHANGED <<req, poll, gw, whCount, adminOps, direct, schema, fnVars, engVars, betVars>>

(***************************************************************************)
(* Admin manual transitions (one transaction each, row locked at its start)*)
(***************************************************************************)
AdminMarkConfirmed(i) ==
    /\ adminOps < MaxAdminOps
    /\ payments[i] # NoRow
    /\ IF ~StatusCheckAdmits("confirmed")
         THEN UNCHANGED <<balance, payments, acct>>
         ELSE IF payments[i].type = "deposit"
         THEN /\ payments' = SetStatus(i, "confirmed")
              /\ balance' = Credit(payments[i].user, payments[i].amount)
              /\ acct' = [acct EXCEPT ![i].credits = @ + 1, ![i].everConfirmed = TRUE]
         ELSE /\ payments' = SetStatus(i, "confirmed")
              /\ UNCHANGED balance
              /\ acct' = NoteStatus(i, "confirmed")
    /\ adminOps' = adminOps + 1
    /\ UNCHANGED <<req, poll, gw, wh, whCount, direct, schema, fnVars, engVars, betVars>>

AdminMarkFailed(i) ==
    /\ adminOps < MaxAdminOps
    /\ payments[i] # NoRow
    /\ payments' = SetStatus(i, "failed")
    /\ IF payments[i].type = "withdraw"
         THEN /\ balance' = Credit(payments[i].user, payments[i].amount)
              /\ acct' = [acct EXCEPT ![i].refunds = @ + 1]
         ELSE UNCHANGED <<balance, acct>>
    /\ adminOps' = adminOps + 1
    /\ UNCHANGED <<req, poll, gw, wh, whCount, direct, schema, fnVars, engVars, betVars>>

(***************************************************************************)
(* POST /users/deposit and POST /users/withdraw                            *)
(***************************************************************************)
\* request slots are taken in order
FreeDirect(d) ==
    /\ direct[d].pc = "none"
    /\ \A e \in 1..MaxDirect : e < d => direct[e].pc # "none"

\* /users/deposit: UPDATE users SET balance = balance + $1 (the SELECT before it is logged only)
UsersDeposit(d, a) ==
    /\ FreeDirect(d)
    /\ balance' = Credit(PayUser, a)
    /\ direct' = [direct EXCEPT ![d] = [pc |-> "done", kind |-> "deposit", amount |-> a, resp |-> 200]]
    /\ UNCHANGED <<payments, req, poll, gw, wh, whCount, adminOps, acct, schema, fnVars, engVars, betVars>>

\* /users/withdraw: the balance read and its comparison with the amount
UsersWithdrawCheck(d, a) ==
    /\ FreeDirect(d)
    /\ IF balance[PayUser] < a
         THEN direct' = [direct EXCEPT ![d] = [pc |-> "done", kind |-> "withdraw", amount |-> a, resp |-> 402]]
         ELSE direct' = [direct EXCEPT ![d] = [pc |-> "checked", kind |-> "withdraw", amount |-> a, resp |-> 0]]
    /\ UNCHANGED <<balance, payments, req, poll, gw, wh, whCount, adminOps, acct, schema, fnVars, engVars, betVars>>

\* /users/withdraw: UPDATE users SET balance = balance - $1 WHERE id = $2
UsersWithdrawDebit(d) ==
    /\ direct[d].pc = "checked"
    /\ balance' = Debit(PayUser, direct[d].amount)
    /\ direct' = [direct EXCEPT ![d].pc = "done", ![d].resp = 200]
    /\ UNCHANGED <<payments, req, poll, gw, wh, whCount, adminOps, acct, schema, fnVars, engVars, betVars>>

NextUsers ==
    \/ \E d \in 1..MaxDirect, a \in DirectAmounts : UsersDeposit(d, a)
    \/ \E d \in 1..MaxDirect, a \in DirectAmounts : UsersWithdrawCheck(d, a)
    \/ \E d \in 1..MaxDirect : UsersWithdrawDebit(d)

NextPay ==
    \/ \E i \in Intents, a \in Amounts : WithdrawCheck(i, a)
    \/ \E i \in Intents : WithdrawGateway(i)
    \/ \E i \in Intents : WithdrawPendingCheck(i)
    \/ \E i \in Intents : WithdrawCommit(i)
    \/ \E i \in Intents, a \in Amounts : DepositPendingCheck(i, a)
    \/ \E i \in Intents : DepositCommit(i)
    \/ \E i \in Intents, s \in GatewayOutcomes : GatewayResolve(i, s)
    \/ \E i \in Intents : PollStatusCheckThrows(i)
    \/ \E i \in Intents : PollWithdrawal(i)
    \/ \E i \in Intents : PollWithdrawalTimeoutRefund(i)
    \/ \E i \in Intents : PollDeposit(i)
    \/ \E i \in Intents : WebhookRead(i)
    \/ WebhookCommit
    \/ \E i \in Intents : AdminMarkConfirmed(i)
    \/ \E i \in Intents : AdminMarkFailed(i)

(***************************************************************************)
(* Round engine (gameEngine.js) and its server glue (server.js)            *)
(***************************************************************************)
MaxRounds == 2       \* rounds the engine creates
MaxTime == 7000      \* the clock stops here (ms)
TickStep == 1000      \* granularity of the clock (ms)
HashBits == 4        \* width of the hash prefix taken by hashToCrashPoint (52 in the source)

NEXT_ROUND_DELAY_MS == 5000
MIN_CRASH_DELAY_MS == 100

Rounds == 1..MaxRounds
MaxLongRounds == 4   \* rounds of a long run (server alone)
MaxLongTime == 19000 \* where the clock of a long run stops (ms)
LongRounds == 1..MaxLongRounds
Commits == 1..(MaxRounds + 1)
Null == 0
NoTime == 0 - 1
NoTimer == 0 - 1

\* sha256hex: an injective map of seeds to digests
sha256hex(s) == 1000 + s

\* hmacHex(SEED_MASTER, String(idx)): one seed per index
hmacHex(idx) == 2 + idx

\* crypto.randomBytes(32).toString('hex'): the n-th draw, never one drawn or derived before
randomBytes(n) == 20 + n

\* the first 13 hex digits of hmacSha256Hex(serverSeed, ''), read as a number below E
hmacSha256Prefix(seed) == (6 * seed + 8) % (2 ^ HashBits)

\* hashToCrashPoint with the quotient rounded to the nearest integer instead of floored
hashToCrashPoint_Rounded(h) ==
    LET e == 2 ^ HashBits
        numerator == 100 * e - h
        denominator == e - h
        result == (2 * numerator + denominator) \div (2 * denominator)
    IN  IF denominator <= 0 THEN 100
        ELSE IF result > 100 THEN result ELSE 100

\* result in hundredths
hashToCrashPoint(h) ==
    LET e == 2 ^ HashBits
        numerator == 100 * e - h
        denominator == e - h
        result == numerator \div denominator
    IN  IF denominator <= 0 THEN 100
        ELSE IF result > 100 THEN result ELSE 100

computeCrashPointFromSeed(serverSeed) == hashToCrashPoint(hmacSha256Prefix(serverSeed))

\* every value parseInt(prefix, 16) can take, and the seeds handed to computeCrashPointFromSeed
HashPrefixes == 0..(2 ^ HashBits - 1)
CalcSeeds == 0..7
NoResult == 0 - 1
NoCrashCalc == [h |-> NoResult, seed |-> NoResult, fromHash |-> NoResult, fromSeed |-> <<>>]

\* hashToCrashPoint(hashHex) on the drawn prefix
CalcFromHash ==
    /\ crashCalc # NoCrashCalc
    /\ crashCalc.fromHash = NoResult
    /\ crashCalc' = [crashCalc EXCEPT !.fromHash = hashToCrashPoint(crashCalc.h)]
    /\ UNCHANGED <<balance, payments, req, poll, gw, wh, whCount, adminOps, direct, acct, schema,
                   classified, limiter, engVars, betVars>>

\* computeCrashPointFromSeed(serverSeed) on the drawn seed: by the engine, then by a verifier
CalcFromSeed ==
    /\ crashCalc # NoCrashCalc
    /\ Len(crashCalc.fromSeed) < 2
    /\ crashCalc' = [crashCalc EXCEPT
                         !.fromSeed = Append(@, computeCrashPointFromSeed(crashCalc.seed))]
    /\ UNCHANGED <<balance, payments, req, poll, gw, wh, whCount, adminOps, direct, acct, schema,
                   classified, limiter, engVars, betVars>>

NextCrashCalc == CalcFromHash \/ CalcFromSeed

\* 1 + elapsedMs / 1000 rounded to two decimals, in hundredths
computeMultiplier(startedAt) == 100 + ((now - startedAt) + 5) \div 10

\* Math.max(100, Math.floor((crashPoint - 1) * 1000))
CrashDelayMs(crashPoint) ==
    IF (crashPoint - 100) * 10 > MIN_CRASH_DELAY_MS
      THEN (crashPoint - 100) * 10 ELSE MIN_CRASH_DELAY_MS

NoPlayer == [joined |-> FALSE, betAmount |-> 0, cashedOut |-> FALSE, payout |-> 0]
NoSeedObj == [seed |-> Null, seedHash |-> Null, commitIdx |-> Null]
NoRound ==
    [roundId |-> Null, crashPoint |-> 0, serverSeed |-> Null, serverSeedHash |-> Null,
     commitIdx |-> Null, status |-> "waiting", startedAt |-> NoTime, endedAt |-> NoTime,
     players |-> [u \in Users |-> NoPlayer], timer |-> NoTimer, nextRoundTimer |-> NoTimer]
NoRoundRow ==
    [round_id |-> Null, server_seed_hash |-> Null, commit_idx |-> Null, crash_point |-> Null,
     started_at |-> NoTime, ended_at |-> NoTime, server_seed |-> Null,
     settlement_closed_at |-> NoTime]
NoPayload == [roundId |-> Null]
NoEvents == [roundStarted |-> 0, roundCrashed |-> 0, crashedFirst |-> FALSE]
NothingSent == [roundStarted |-> NoPayload, crash |-> NoPayload, tickFirst |-> FALSE]
HandlerIdle == [pc |-> "none", r |-> NoPayload]
EnsIdle == [pc |-> "none", nextIdx |-> Null, ret |-> [idx |-> Null, seed_hash |-> Null]]

\* callers of ensureNextCommitExists: start() (0) and the 'roundStarted' listener of each round
Callers == {0} \cup Rounds

\* a 'roundStarted' payload that carries the seed
RoundStartedPayload_WholeRound(round) ==
    [roundId |-> round.roundId, serverSeedHash |-> round.serverSeedHash,
     serverSeed |-> round.serverSeed,
     commitIdx |-> round.commitIdx, crashPoint |-> round.crashPoint,
     startedAt |-> round.startedAt]

\* the payload createNewRound emits with 'roundStarted'
RoundStartedPayload(round) ==
    [roundId |-> round.roundId, serverSeedHash |-> round.serverSeedHash,
     commitIdx |-> round.commitIdx, crashPoint |-> round.crashPoint,
     startedAt |-> round.startedAt]

\* the payload markRoundCrashed emits with 'roundCrashed'
RoundCrashedPayload(round) ==
    [roundId |-> round.roundId, crashPoint |-> round.crashPoint,
     serverSeedHash |-> round.serverSeedHash, serverSeed |-> round.serverSeed,
     commitIdx |-> round.commitIdx, startedAt |-> round.startedAt, endedAt |-> round.endedAt]

\* markRoundCrashed goes past its two early returns
MarkCrashedEmits(round) == round # NoRound /\ round.status # "crashed"

\* a markRoundCrashed that does not set round.status
markRoundCrashed_StatusKept(round) ==
    IF MarkCrashedEmits(round)
      THEN [round EXCEPT !.endedAt = now, !.timer = NoTimer,
                         !.nextRoundTimer = IF @ = NoTimer /\ ~disposed
                                              THEN now + NEXT_ROUND_DELAY_MS ELSE @]
      ELSE round

\* a markRoundCrashed that schedules no next round
markRoundCrashed_NoNextRound(round) ==
    IF MarkCrashedEmits(round)
      THEN [round EXCEPT !.status = "crashed", !.endedAt = now, !.timer = NoTimer]
      ELSE round

\* the round object after markRoundCrashed(round)
markRoundCrashed(round) ==
    IF MarkCrashedEmits(round)
      THEN [round EXCEPT !.status = "crashed", !.endedAt = now, !.timer = NoTimer,
                         !.nextRoundTimer = IF @ = NoTimer /\ ~disposed
                                              THEN now + NEXT_ROUND_DELAY_MS ELSE @]
      ELSE round

\* a call of markRoundCrashed on the current round, with the listener it starts
CallMarkRoundCrashed ==
    /\ currentRound' = markRoundCrashed(currentRound)
    /\ IF MarkCrashedEmits(currentRound)
         THEN LET id == currentRound.roundId IN
              /\ emitted' = [emitted EXCEPT ![id].roundCrashed = @ + 1,
                                            ![id].crashedFirst = @ \/ emitted[id].roundStarted = 0]
              /\ hCrash' = [hCrash EXCEPT ![id] =
                     [pc |-> "persist", r |-> RoundCrashedPayload(markRoundCrashed(currentRound))]]
         ELSE UNCHANGED <<emitted, hCrash>>

\* a threshold test that leaves out the comparison with the crash point
ThresholdReached_AnyRunning ==
    /\ currentRound # NoRound
    /\ currentRound.status = "running"

\* getRoundStatus reaches its call of markRoundCrashed
ThresholdReached ==
    /\ currentRound # NoRound
    /\ currentRound.status = "running"
    /\ computeMultiplier(currentRound.startedAt) >= currentRound.crashPoint

\* the side effect of getRoundStatus()
GetRoundStatusEffect ==
    IF ThresholdReached THEN CallMarkRoundCrashed
    ELSE UNCHANGED <<currentRound, emitted, hCrash>>

\* a getRoundStatus that reports the clock's multiplier for a crashed round too
getRoundStatus_Uncapped(round) ==
    IF round = NoRound
      THEN [status |-> "waiting", roundId |-> Null, multiplier |-> Null]
      ELSE [status |-> round.status, roundId |-> round.roundId,
            multiplier |-> computeMultiplier(round.startedAt)]

\* the value getRoundStatus() returns, given the round after its side effect
getRoundStatus(round) ==
    IF round = NoRound
      THEN [status |-> "waiting", roundId |-> Null, multiplier |-> Null]
      ELSE [status |-> round.status, roundId |-> round.roundId,
            multiplier |-> IF round.status = "running"
                             THEN computeMultiplier(round.startedAt) ELSE round.crashPoint]

\* the status the caller of getRoundStatus() gets in the current state
StatusNow ==
    getRoundStatus(IF ThresholdReached THEN markRoundCrashed(currentRound) ELSE currentRound)

\* deriveSeedForIdx(idx), n being the number of the next random draw
deriveSeedForIdx(idx, n) == IF seedMaster THEN hmacHex(idx) ELSE randomBytes(n)
Draws == IF seedMaster THEN 0 ELSE 1

\* setNextSeed(obj)
setNextSeed(obj) ==
    IF obj.seed = Null \/ obj.seedHash = Null THEN NoSeedObj ELSE obj

\* createNewRound(), called with disposed = false
createNewRound ==
    LET usePending == pendingSeedObj # NoSeedObj /\ pendingSeedObj.seed # Null
                      /\ pendingSeedObj.seedHash # Null
        ephemeral == randomBytes(randCount + 1)
        seedObj == IF usePending THEN pendingSeedObj
                   ELSE [seed |-> ephemeral, seedHash |-> sha256hex(ephemeral), commitIdx |-> Null]
        crashPoint == computeCrashPointFromSeed(seedObj.seed)
        round == [roundId |-> roundCount + 1, crashPoint |-> crashPoint,
                  serverSeed |-> seedObj.seed, serverSeedHash |-> seedObj.seedHash,
                  commitIdx |-> seedObj.commitIdx, status |-> "running",
                  startedAt |-> now, endedAt |-> NoTime,
                  players |-> [u \in Users |-> NoPlayer],
                  timer |-> now + CrashDelayMs(crashPoint), nextRoundTimer |-> NoTimer]
    IN  /\ currentRound' = round
        /\ pendingSeedObj' = IF usePending THEN NoSeedObj ELSE pendingSeedObj
        /\ randCount' = IF usePending THEN randCount ELSE randCount + 1
        /\ roundCount' = roundCount + 1
        /\ emitted' = [emitted EXCEPT ![round.roundId].roundStarted = @ + 1]
        /\ hStart' = [hStart EXCEPT ![round.roundId] =
               [pc |-> "persist", r |-> RoundStartedPayload(round)]]

InitEngine ==
    /\ now = 0
    /\ currentRound = NoRound
    /\ disposed = FALSE
    /\ pendingSeedObj = NoSeedObj
    /\ roundCount = 0
    /\ randCount = 0
    /\ emitted = [r \in Rounds |-> NoEvents]
    /\ hStart = [r \in Rounds |-> HandlerIdle]
    /\ hCrash = [r \in Rounds |-> HandlerIdle]
    /\ ens = [c \in Callers |-> EnsIdle]
    /\ rounds = [r \in Rounds |-> NoRoundRow]
    /\ seed_commits = [i \in Commits |-> Null]
    /\ sent = [r \in Rounds |-> NothingSent]
    /\ boot = "start"

(***************************************************************************)
(* ensureNextCommitExists(db), one step per query                          *)
(***************************************************************************)
MaxIdx ==
    IF \E i \in DOMAIN seed_commits : seed_commits[i] # Null
      THEN CHOOSE i \in DOMAIN seed_commits :
               seed_commits[i] # Null /\ \A j \in DOMAIN seed_commits : seed_commits[j] # Null => j <= i
      ELSE 0

\* SELECT MAX(idx) FROM seed_commits
EnsureMax(c) ==
    /\ ens[c].pc = "max"
    /\ ens' = [ens EXCEPT ![c].pc = "existing", ![c].nextIdx = MaxIdx + 1]
    /\ UNCHANGED <<now, currentRound, disposed, pendingSeedObj, roundCount, randCount, seedMaster,
                   emitted, hStart, hCrash, rounds, seed_commits, sent, boot>>
    /\ UNCHANGED <<balance, payVars, betVars>>

\* SELECT ... WHERE idx = nextIdx: an existing row is returned as it is
EnsureExisting(c) ==
    /\ ens[c].pc = "existing"
    /\ LET nextIdx == ens[c].nextIdx IN
       IF seed_commits[nextIdx] # Null
         THEN ens' = [ens EXCEPT ![c].pc = "ret",
                                 ![c].ret = [idx |-> nextIdx, seed_hash |-> seed_commits[nextIdx]]]
         ELSE ens' = [ens EXCEPT ![c].pc = "insert"]
    /\ UNCHANGED <<now, currentRound, disposed, pendingSeedObj, roundCount, randCount, seedMaster,
                   emitted, hStart, hCrash, rounds, seed_commits, sent, boot>>
    /\ UNCHANGED <<balance, payVars, betVars>>

\* the row ensureNextCommitExists derives, inserts and returns
NewCommit(nextIdx, n) == [idx |-> nextIdx, seed_hash |-> sha256hex(deriveSeedForIdx(nextIdx, n))]

\* deriveSeedForIdx, sha256hex, INSERT ... ON CONFLICT (idx) DO NOTHING; returns its own row
EnsureInsert(c) ==
    /\ ens[c].pc = "insert"
    /\ LET row == NewCommit(ens[c].nextIdx, randCount + 1) IN
       /\ seed_commits' = IF seed_commits[row.idx] = Null
                            THEN [seed_commits EXCEPT ![row.idx] = row.seed_hash]
                            ELSE seed_commits
       /\ ens' = [ens EXCEPT ![c].pc = "ret", ![c].ret = row]
    /\ randCount' = randCount + Draws
    /\ UNCHANGED <<now, currentRound, disposed, pendingSeedObj, roundCount, seedMaster,
                   emitted, hStart, hCrash, rounds, sent, boot>>
    /\ UNCHANGED <<balance, payVars, betVars>>

(***************************************************************************)
(* server.js start()                                                       *)
(***************************************************************************)
BootEnsure ==
    /\ boot = "start"
    /\ boot' = "ensure"
    /\ ens' = [ens EXCEPT ![0].pc = "max"]
    /\ UNCHANGED <<now, currentRound, disposed, pendingSeedObj, roundCount, randCount, seedMaster,
                   emitted, hStart, hCrash, rounds, seed_commits, sent>>
    /\ UNCHANGED <<balance, payVars, betVars>>

\* getLatestCommit, deriveSeedForIdx, setNextSeed
BootPrime ==
    /\ boot = "ensure"
    /\ ens[0].pc = "ret"
    /\ boot' = "primed"
    /\ IF MaxIdx = 0
         THEN UNCHANGED <<pendingSeedObj, randCount>>
         ELSE /\ pendingSeedObj' = setNextSeed([seed |-> deriveSeedForIdx(MaxIdx, randCount + 1),
                                                seedHash |-> seed_commits[MaxIdx],
                                                commitIdx |-> MaxIdx])
              /\ randCount' = randCount + Draws
    /\ UNCHANGED <<now, currentRound, disposed, roundCount, seedMaster,
                   emitted, hStart, hCrash, ens, rounds, seed_commits, sent>>
    /\ UNCHANGED <<balance, payVars, betVars>>

\* attachEngineListeners, startEngine, startBroadcastLoop, httpServer.listen
BootStartEngine ==
    /\ boot = "primed"
    /\ boot' = "up"
    /\ IF disposed
         THEN UNCHANGED <<currentRound, pendingSeedObj, randCount, roundCount, emitted, hStart>>
         ELSE createNewRound
    /\ UNCHANGED <<now, disposed, seedMaster, hCrash, ens, rounds, seed_commits, sent>>
    /\ UNCHANGED <<balance, payVars, betVars>>

(***************************************************************************)
(* The clock and the engine's timers.  A timer fires at or after its time. *)
(***************************************************************************)
\* where the exploration stops: the rounds the state was set up for, and the clock's end
RoundLimit == Len(hStart)
TimeLimit == IF RoundLimit = MaxRounds THEN MaxTime ELSE MaxLongTime

\* a listener of the engine's emitter is waiting for the database
ListenerInFlight ==
    \E id \in DOMAIN hStart :
        hStart[id].pc \notin {"none", "done"} \/ hCrash[id].pc \notin {"none", "done"}

\* the clock advances while no listener is in flight; it is read by the running server
\* only (gracefulShutdown ends the process)
Tick ==
    /\ boot = "up"
    /\ ~ListenerInFlight
    /\ now + TickStep <= TimeLimit
    /\ now' = now + TickStep
    /\ UNCHANGED <<currentRound, disposed, pendingSeedObj, roundCount, randCount, seedMaster,
                   emitted, hStart, hCrash, ens, rounds, seed_commits, sent, boot>>
    /\ UNCHANGED <<balance, payVars, betVars>>

\* the clock advances while a listener is still waiting for the database
TickLate ==
    /\ boot = "up"
    /\ ListenerInFlight
    /\ now + TickStep <= TimeLimit
    /\ now' = now + TickStep
    /\ UNCHANGED <<currentRound, disposed, pendingSeedObj, roundCount, randCount, seedMaster,
                   emitted, hStart, hCrash, ens, rounds, seed_commits, sent, boot>>
    /\ UNCHANGED <<balance, payVars, betVars>>

\* the auto-crash timer armed by createNewRound
TimerCrash ==
    /\ currentRound # NoRound
    /\ currentRound.timer # NoTimer
    /\ now >= currentRound.timer
    /\ IF currentRound.status = "running"
         THEN CallMarkRoundCrashed
         ELSE /\ currentRound' = [currentRound EXCEPT !.timer = NoTimer]
              /\ UNCHANGED <<emitted, hCrash>>
    /\ UNCHANGED <<now, disposed, pendingSeedObj, roundCount, randCount, seedMaster,
                   hStart, ens, rounds, seed_commits, sent, boot>>
    /\ UNCHANGED <<balance, payVars, betVars>>

\* the next-round timer armed by markRoundCrashed
TimerNextRound ==
    /\ currentRound # NoRound
    /\ currentRound.nextRoundTimer # NoTimer
    /\ now >= currentRound.nextRoundTimer
    /\ roundCount < RoundLimit
    /\ IF disposed
         THEN /\ currentRound' = NoRound
              /\ UNCHANGED <<pendingSeedObj, randCount, roundCount, emitted, hStart>>
         ELSE createNewRound
    /\ UNCHANGED <<now, disposed, seedMaster, hCrash, ens, rounds, seed_commits, sent, boot>>
    /\ UNCHANGED <<balance, payVars, betVars>>

\* GET /game/status
StatusPoll ==
    /\ boot = "up"
    /\ GetRoundStatusEffect
    /\ UNCHANGED <<now, disposed, pendingSeedObj, roundCount, randCount, seedMaster,
                   hStart, ens, rounds, seed_commits, sent, boot>>
    /\ UNCHANGED <<balance, payVars, betVars>>

\* the payload of a 'multiplier' message
MultiplierPayload(status) ==
    [roundId |-> status.roundId, status |-> status.status, multiplier |-> status.multiplier]

\* safeEmit('multiplier', msg): tickFirst says that subscribers hold a tick of the round
\* and not, so far, its 'roundStarted' message
TickSent(msg) ==
    IF msg.roundId = Null THEN sent
    ELSE [sent EXCEPT ![msg.roundId].tickFirst = (sent[msg.roundId].roundStarted = NoPayload)]

\* one run of the broadcast loop's interval callback
BroadcastTick ==
    /\ boot = "up"
    /\ GetRoundStatusEffect
    /\ sent' = TickSent(MultiplierPayload(StatusNow))
    /\ UNCHANGED <<now, disposed, pendingSeedObj, roundCount, randCount, seedMaster,
                   hStart, ens, rounds, seed_commits, boot>>
    /\ UNCHANGED <<balance, payVars, betVars>>

\* gracefulShutdown: stopBroadcastLoop, gameEngine.dispose()
GracefulShutdown ==
    /\ boot = "up"
    /\ boot' = "down"
    /\ disposed' = TRUE
    /\ currentRound' = NoRound
    /\ UNCHANGED <<now, pendingSeedObj, roundCount, randCount, seedMaster,
                   emitted, hStart, hCrash, ens, rounds, seed_commits, sent>>
    /\ UNCHANGED <<balance, payVars, betVars>>

(***************************************************************************)
(* The server's listeners on the engine's emitter                          *)
(***************************************************************************)
\* the row persistRoundStart inserts
PersistRoundStartRow(r) ==
    [round_id |-> r.roundId, server_seed_hash |-> r.serverSeedHash, commit_idx |-> r.commitIdx,
     crash_point |-> r.crashPoint, started_at |-> r.startedAt, ended_at |-> NoTime,
     server_seed |-> Null, settlement_closed_at |-> NoTime]

\* INSERT INTO rounds ... ON CONFLICT (round_id) DO NOTHING
HStartPersist(id) ==
    /\ hStart[id].pc = "persist"
    /\ rounds' = IF rounds[id] = NoRoundRow
                   THEN [rounds EXCEPT ![id] = PersistRoundStartRow(hStart[id].r)]
                   ELSE rounds
    /\ hStart' = [hStart EXCEPT ![id].pc = "broadcast"]
    /\ UNCHANGED <<now, currentRound, disposed, pendingSeedObj, roundCount, randCount, seedMaster,
                   emitted, hCrash, ens, seed_commits, sent, boot>>
    /\ UNCHANGED <<balance, payVars, betVars>>

\* the 'roundStarted' message sent to every subscriber
RoundStartedMessage(r) ==
    [roundId |-> r.roundId, commitIdx |-> r.commitIdx, serverSeedHash |-> r.serverSeedHash,
     crashPoint |-> r.crashPoint, startedAt |-> r.startedAt]

\* safeEmit('roundStarted', ...), then the call of ensureNextCommitExists
HStartBroadcast(id) ==
    /\ hStart[id].pc = "broadcast"
    /\ sent' = [sent EXCEPT ![id].roundStarted = RoundStartedMessage(hStart[id].r),
                            ![id].tickFirst = FALSE]
    /\ hStart' = [hStart EXCEPT ![id].pc = "ensure"]
    /\ ens' = [ens EXCEPT ![id].pc = "max"]
    /\ UNCHANGED <<now, currentRound, disposed, pendingSeedObj, roundCount, randCount, seedMaster,
                   emitted, hCrash, rounds, seed_commits, boot>>
    /\ UNCHANGED <<balance, payVars, betVars>>

\* deriveSeedForIdx(nextCommit.idx), then gameEngine.setNextSeed
HStartSetNextSeed(id) ==
    /\ hStart[id].pc = "ensure"
    /\ ens[id].pc = "ret"
    /\ LET nextCommit == ens[id].ret IN
       pendingSeedObj' = setNextSeed([seed |-> deriveSeedForIdx(nextCommit.idx, randCount + 1),
                                      seedHash |-> nextCommit.seed_hash,
                                      commitIdx |-> nextCommit.idx])
    /\ randCount' = randCount + Draws
    /\ hStart' = [hStart EXCEPT ![id].pc = "done"]
    /\ UNCHANGED <<now, currentRound, disposed, roundCount, seedMaster,
                   emitted, hCrash, ens, rounds, seed_commits, sent, boot>>
    /\ UNCHANGED <<balance, payVars, betVars>>

\* persistRoundCrash: UPDATE rounds SET crash_point, ended_at, server_seed WHERE round_id
HCrashPersist(id) ==
    /\ hCrash[id].pc = "persist"
    /\ LET r == hCrash[id].r IN
       rounds' = IF rounds[id] = NoRoundRow THEN rounds
                 ELSE [rounds EXCEPT ![id].crash_point = r.crashPoint,
                                     ![id].ended_at = r.endedAt,
                                     ![id].server_seed = r.serverSeed]
    /\ hCrash' = [hCrash EXCEPT ![id].pc = "broadcast"]
    /\ UNCHANGED <<now, currentRound, disposed, pendingSeedObj, roundCount, randCount, seedMaster,
                   emitted, hStart, ens, seed_commits, sent, boot>>
    /\ UNCHANGED <<balance, payVars, betVars>>

\* the 'crash' message sent to every subscriber
CrashMessage(r) ==
    [roundId |-> r.roundId, crashPoint |-> r.crashPoint, commitIdx |-> r.commitIdx,
     serverSeedHash |-> r.serverSeedHash, startedAt |-> r.startedAt, endedAt |-> r.endedAt]

HCrashBroadcast(id) ==
    /\ hCrash[id].pc = "broadcast"
    /\ sent' = [sent EXCEPT ![id].crash = CrashMessage(hCrash[id].r)]
    /\ hCrash' = [hCrash EXCEPT ![id].pc = "done"]
    /\ UNCHANGED <<now, currentRound, disposed, pendingSeedObj, roundCount, randCount, seedMaster,
                   emitted, hStart, ens, rounds, seed_commits, boot>>
    /\ UNCHANGED <<balance, payVars, betVars>>

(***************************************************************************)
(* Public read endpoints, as functions of the database                     *)
(***************************************************************************)
\* GET /api/game/reveal/:roundId
RevealEndpoint(id) ==
    IF rounds[id] = NoRoundRow THEN [status |-> 404]
    ELSE IF rounds[id].server_seed = Null THEN [status |-> 400]
    ELSE [status |-> 200, roundId |-> id, commitIdx |-> rounds[id].commit_idx,
          serverSeed |-> rounds[id].server_seed, serverSeedHash |-> rounds[id].server_seed_hash,
          crashPoint |-> rounds[id].crash_point]

\* GET /game/rounds/:roundId (SELECT * FROM rounds)
RoundDetailsEndpoint(id) ==
    IF rounds[id] = NoRoundRow THEN [status |-> 404]
    ELSE [status |-> 200, round |-> rounds[id]]

NextServer ==
    \/ BootEnsure
    \/ \E c \in Callers : EnsureMax(c)
    \/ \E c \in Callers : EnsureExisting(c)
    \/ \E c \in Callers : EnsureInsert(c)
    \/ BootPrime
    \/ BootStartEngine
    \/ Tick
    \/ TimerCrash
    \/ TimerNextRound
    \/ StatusPoll
    \/ BroadcastTick
    \/ GracefulShutdown
    \/ \E id \in Rounds : HStartPersist(id)
    \/ \E id \in Rounds : HStartBroadcast(id)
    \/ \E id \in Rounds : HStartSetNextSeed(id)
    \/ \E id \in Rounds : HCrashPersist(id)
    \/ \E id \in Rounds : HCrashBroadcast(id)

NextEngine == NextServer \/ TickLate

(***************************************************************************)
(* Game routes: POST /game/start and POST /game/cashout                    *)
(***************************************************************************)
MaxStartReqs == 2    \* POST /game/start requests
MaxCashReqs == 2     \* POST /game/cashout requests

CASHOUT_MIN_INTERVAL_MS == 1000
CASHOUT_PRUNE_AGE_MS == 600000
MAX_CASHOUT_ENTRIES == 1     \* entries the cashout map keeps (20000 in the source)
MIN_BET_AMOUNT == 1 * Kwacha
MAX_BET_AMOUNT == 1000000 * Kwacha
MAX_ROUND_AGE_MS == 300000

Bettors == {"u1"}
BetAmounts == {5 * Kwacha}
BetIds == 1..MaxStartReqs
CashIds == 1..MaxCashReqs

NoBet == [user |-> "none", round_id |-> Null, bet_amount |-> 0, status |-> "none",
          payout |-> 0, claimed_at |-> NoTime]
\* a request: its position, its inputs, its response; overlap, roundAt, afterDone and gap
\* note the circumstances of its arrival
StartIdle == [pc |-> "none", user |-> "none", betAmount |-> 0, roundId |-> Null,
              resp |-> 0, joined |-> Null, overlap |-> {}]
CashIdle == [pc |-> "none", user |-> "none", roundId |-> Null, resp |-> 0,
             success |-> FALSE, payout |-> 0, idempotent |-> FALSE, credited |-> 0,
             roundAt |-> Null, afterDone |-> {}, gap |-> NoTime, error |-> "none"]

InitLedger ==
    /\ bets = [b \in BetIds |-> NoBet]
    /\ startReq = [s \in BetIds |-> StartIdle]
    /\ cashReq = [c \in CashIds |-> CashIdle]
    /\ cashoutTimestamps = <<>>
    /\ roundAcct = [r \in Rounds |-> [debits |-> 0, credits |-> 0]]

\* the error messages of POST /game/cashout
CashoutError ==
    [tooMany |-> "Too many cashout attempts; slow down",
     notRunning |-> "No active running round",
     roundNotFound |-> "Round not found",
     settlementClosed |-> "Settlement window for this round has closed. Claims no longer accepted.",
     noActiveBet |-> "No active bet found for current round",
     server |-> "Server error"]

\* the rows of SELECT ... FROM bets WHERE user_id = $1 AND round_id = $2
BetsOf(user, roundId) ==
    {b \in BetIds : bets[b].user = user /\ bets[b].round_id = roundId}

\* a bets table without the partial unique index
UniqueViolation_NoIndex(user, roundId) == FALSE

\* idx_bets_user_round: UNIQUE (user_id, round_id) WHERE status = 'active'
UniqueViolation(user, roundId) ==
    \E b \in BetsOf(user, roundId) : bets[b].status = "active"

\* Number((betAmount * multiplier).toFixed(2)), multiplier in hundredths
Payout(betAmount, multiplier) == (betAmount * multiplier + 50) \div 100

\* the Map cashoutTimestamps: its entries [key, ts] in insertion order
MapHas(map, key) == \E i \in 1..Len(map) : map[i].key = key

\* cashoutTimestamps.get(key), NoTime for an absent key
MapGet(map, key) ==
    IF MapHas(map, key) THEN map[CHOOSE i \in 1..Len(map) : map[i].key = key].ts ELSE NoTime

\* cashoutTimestamps.set(key, ts): an existing key keeps its place in the order
MapSet(map, key, ts) ==
    IF MapHas(map, key)
      THEN [i \in 1..Len(map) |-> IF map[i].key = key THEN [key |-> key, ts |-> ts] ELSE map[i]]
      ELSE Append(map, [key |-> key, ts |-> ts])

\* Date.now() - last < CASHOUT_MIN_INTERVAL_MS; Date.now() is far above the interval,
\* so a user without an entry (last = 0) is never too soon
TooSoon(user) ==
    /\ MapGet(cashoutTimestamps, user) # NoTime
    /\ now - MapGet(cashoutTimestamps, user) < CASHOUT_MIN_INTERVAL_MS

\* time since the user's last cashout call, as far as the limiter tells them apart
SinceLastCashout(user) ==
    IF MapGet(cashoutTimestamps, user) = NoTime THEN NoTime
    ELSE IF now - MapGet(cashoutTimestamps, user) < CASHOUT_MIN_INTERVAL_MS
      THEN now - MapGet(cashoutTimestamps, user)
    ELSE CASHOUT_MIN_INTERVAL_MS

\* the while loop of pruneCashoutMapByAge: the first keys go until the size fits
DropOldest(map) ==
    IF Len(map) > MAX_CASHOUT_ENTRIES
      THEN SubSeq(map, Len(map) - MAX_CASHOUT_ENTRIES + 1, Len(map))
      ELSE map

IsYoung(e) == ~(now - e.ts > CASHOUT_PRUNE_AGE_MS)

\* pruneCashoutMapByAge(): entries older than CASHOUT_PRUNE_AGE_MS go, then the cap
pruneCashoutMapByAge(map) == DropOldest(SelectSeq(map, IsYoung))

\* cashoutTimestamps.set(user, Date.now()); pruneCashoutMapByAge()
Stamp(user) == pruneCashoutMapByAge(MapSet(cashoutTimestamps, user, now))

\* ---- POST /game/start ----
\* validation and the getRoundStatus() call
StartBegin(s, user, betAmount) ==
    /\ boot = "up"
    /\ startReq[s].pc = "none"
    /\ \A t \in BetIds : t < s => startReq[t].pc # "none"
    /\ betAmount >= MIN_BET_AMOUNT /\ betAmount <= MAX_BET_AMOUNT
    /\ GetRoundStatusEffect
    /\ LET status == StatusNow
           arrival == [StartIdle EXCEPT !.user = user, !.betAmount = betAmount,
                           !.overlap = {t \in BetIds : startReq[t].pc \notin {"none", "done"}}]
       IN  IF status.status # "running"
             THEN startReq' = [startReq EXCEPT ![s] =
                      [arrival EXCEPT !.pc = "done", !.resp = 400]]
             ELSE startReq' = [startReq EXCEPT ![s] =
                      [arrival EXCEPT !.pc = "checks", !.roundId = status.roundId]]
    /\ UNCHANGED <<now, disposed, pendingSeedObj, roundCount, randCount, seedMaster,
                   hStart, ens, rounds, seed_commits, sent, boot>>
    /\ UNCHANGED <<balance, payVars, bets, cashReq, cashoutTimestamps, roundAcct>>

\* the round lookup and the existing-bet query of the transaction
StartChecks(s) ==
    /\ startReq[s].pc = "checks"
    /\ LET user == startReq[s].user
           roundId == startReq[s].roundId
           existing == BetsOf(user, roundId)
       IN  IF rounds[roundId] = NoRoundRow
             THEN startReq' = [startReq EXCEPT ![s].pc = "done", ![s].resp = 400]
           ELSE IF now - rounds[roundId].started_at > MAX_ROUND_AGE_MS
             THEN startReq' = [startReq EXCEPT ![s].pc = "done", ![s].resp = 400]
           ELSE IF existing = {}
             THEN startReq' = [startReq EXCEPT ![s].pc = "debit"]
           ELSE \E b \in existing :      \* rows[0] of a query without ORDER BY
                  IF bets[b].status = "active"
                    THEN startReq' = [startReq EXCEPT ![s].pc = "done", ![s].resp = 409]
                    ELSE startReq' = [startReq EXCEPT ![s].pc = "debit"]
    /\ UNCHANGED <<balance, payVars, engVars, bets, cashReq, cashoutTimestamps, roundAcct>>

\* UPDATE users ... WHERE balance >= $1; INSERT INTO bets; COMMIT.  The INSERT fails on
\* the unique index: that error carries no status and the route answers 500.
StartCommit(s) ==
    /\ startReq[s].pc = "debit"
    /\ LET user == startReq[s].user
           betAmount == startReq[s].betAmount
           roundId == startReq[s].roundId
       IN  IF balance[user] < betAmount
             THEN /\ startReq' = [startReq EXCEPT ![s].pc = "done", ![s].resp = 402]
                  /\ UNCHANGED <<balance, bets, roundAcct>>
           ELSE IF UniqueViolation(user, roundId)
             THEN /\ startReq' = [startReq EXCEPT ![s].pc = "done", ![s].resp = 500]
                  /\ UNCHANGED <<balance, bets, roundAcct>>
           ELSE /\ balance' = Debit(user, betAmount)
                /\ bets' = [bets EXCEPT ![s] =
                       [NoBet EXCEPT !.user = user, !.round_id = roundId,
                                     !.bet_amount = betAmount, !.status = "active"]]
                /\ roundAcct' = [roundAcct EXCEPT ![roundId].debits = @ + betAmount]
                /\ startReq' = [startReq EXCEPT ![s].pc = "join"]
    /\ UNCHANGED <<payVars, engVars, cashReq, cashoutTimestamps>>

\* a joinRound without the test for a player who is already in the round
JoinRoundThrows_NoDuplicateTest(round, user) ==
    \/ round = NoRound
    \/ round.status # "running"

\* joinRound throws
JoinRoundThrows(round, user) ==
    \/ round = NoRound
    \/ round.status # "running"
    \/ round.players[user].joined

\* joinRound(user.id, betAmount) after the commit
StartJoin(s) ==
    /\ startReq[s].pc = "join"
    /\ LET user == startReq[s].user IN
       IF JoinRoundThrows(currentRound, user)
         THEN /\ startReq' = [startReq EXCEPT ![s].pc = "refund"]
              /\ UNCHANGED currentRound
         ELSE /\ currentRound' = [currentRound EXCEPT !.players[user] =
                     [NoPlayer EXCEPT !.joined = TRUE, !.betAmount = startReq[s].betAmount]]
              /\ startReq' = [startReq EXCEPT ![s].pc = "done", ![s].resp = 200,
                                              ![s].joined = currentRound.roundId]
    /\ UNCHANGED <<now, disposed, pendingSeedObj, roundCount, randCount, seedMaster,
                   emitted, hStart, hCrash, ens, rounds, seed_commits, sent, boot>>
    /\ UNCHANGED <<balance, payVars, bets, cashReq, cashoutTimestamps, roundAcct>>

\* the compensating transaction after a failed join
StartRefund(s) ==
    /\ startReq[s].pc = "refund"
    /\ balance' = Credit(startReq[s].user, startReq[s].betAmount)
    /\ bets' = [bets EXCEPT ![s].status = "refunded"]
    /\ roundAcct' = [roundAcct EXCEPT ![startReq[s].roundId].credits = @ + startReq[s].betAmount]
    /\ startReq' = [startReq EXCEPT ![s].pc = "done", ![s].resp = 500]
    /\ UNCHANGED <<payVars, engVars, cashReq, cashoutTimestamps>>

\* ---- POST /game/cashout ----
\* the rate limiter and the getRoundStatus() call; the transaction's first query is
\* sent with getRoundStatus().roundId
CashoutBegin(c, user) ==
    /\ boot = "up"
    /\ cashReq[c].pc = "none"
    /\ \A d \in CashIds : d < c => cashReq[d].pc # "none"
    /\ cashoutTimestamps' = Stamp(user)
    /\ LET arrival == [CashIdle EXCEPT !.user = user,
                           !.roundAt = currentRound.roundId,
                           !.afterDone = {d \in CashIds : cashReq[d].pc = "done"},
                           !.gap = SinceLastCashout(user)]
       IN  IF TooSoon(user)
             THEN /\ cashReq' = [cashReq EXCEPT ![c] = [arrival EXCEPT !.pc = "done", !.resp = 429,
                                                        !.error = CashoutError.tooMany]]
                  /\ UNCHANGED <<currentRound, emitted, hCrash>>
             ELSE /\ GetRoundStatusEffect
                  /\ LET status == StatusNow IN
                     IF status.status # "running"
                       THEN cashReq' = [cashReq EXCEPT ![c] =
                                [arrival EXCEPT !.pc = "done", !.resp = 400,
                                                !.error = CashoutError.notRunning]]
                       ELSE cashReq' = [cashReq EXCEPT ![c] = [arrival EXCEPT !.pc = "roundCheck"]]
    /\ UNCHANGED <<now, disposed, pendingSeedObj, roundCount, randCount, seedMaster,
                   hStart, ens, rounds, seed_commits, sent, boot>>
    /\ UNCHANGED <<balance, payVars, bets, startReq, roundAcct>>

\* the round query, sent with getRoundStatus().roundId, and the settlement window
CashoutRoundCheck(c) ==
    /\ cashReq[c].pc = "roundCheck"
    /\ GetRoundStatusEffect
    /\ LET roundId == StatusNow.roundId
           closed == IF roundId = Null \/ rounds[roundId] = NoRoundRow THEN NoTime
                     ELSE rounds[roundId].settlement_closed_at
       IN  IF roundId = Null \/ rounds[roundId] = NoRoundRow
             THEN cashReq' = [cashReq EXCEPT ![c].pc = "done", ![c].resp = 400,
                                             ![c].error = CashoutError.roundNotFound]
           ELSE IF closed # NoTime /\ now > closed
             THEN cashReq' = [cashReq EXCEPT ![c].pc = "done", ![c].resp = 400,
                                             ![c].error = CashoutError.settlementClosed]
           ELSE cashReq' = [cashReq EXCEPT ![c].pc = "settle"]
    /\ UNCHANGED <<now, disposed, pendingSeedObj, roundCount, randCount, seedMaster,
                   hStart, ens, rounds, seed_commits, sent, boot>>
    /\ UNCHANGED <<balance, payVars, bets, startReq, cashoutTimestamps, roundAcct>>

\* engine cashOut throws
CashOutThrows(round, user) ==
    \/ round = NoRound
    \/ ~round.players[user].joined
    \/ round.players[user].cashedOut

\* an engine cashOut that tests the round's status and not the multiplier
CashOutLoses_StatusOnly(round) == round.status # "running"

\* engine cashOut does not win
CashOutLoses(round) ==
    computeMultiplier(round.startedAt) >= round.crashPoint \/ round.status # "running"

\* the multiplier in the result of engine cashOut (a call that does not throw)
CashOutMultiplier(round) ==
    IF CashOutLoses(round) THEN round.crashPoint ELSE computeMultiplier(round.startedAt)

\* a settlement that does not recognise a cashed bet
IsCashed_Never(bet) == FALSE

\* bet.status === 'cashed'
IsCashed(bet) == bet.status = "cashed"

\* the bet query FOR UPDATE, sent with getRoundStatus().roundId; engine cashOut, the
\* updates, COMMIT, the second timestamp and the response
CashoutSettle(c) ==
    /\ cashReq[c].pc = "settle"
    /\ LET user == cashReq[c].user
           roundId == StatusNow.roundId
           found == IF roundId = Null THEN {} ELSE BetsOf(user, roundId)
           sent1 == [cashReq[c] EXCEPT !.pc = "done", !.roundId = roundId]
       IN  IF found = {}
             THEN /\ cashReq' = [cashReq EXCEPT ![c] = [sent1 EXCEPT !.resp = 400,
                                                                     !.error = CashoutError.noActiveBet]]
                  /\ GetRoundStatusEffect
                  /\ UNCHANGED <<balance, bets, cashoutTimestamps, roundAcct>>
           ELSE \E b \in found :      \* rows[0]
             IF IsCashed(bets[b])
               THEN /\ cashReq' = [cashReq EXCEPT ![c] =
                            [sent1 EXCEPT !.resp = 200, !.success = TRUE,
                                          !.payout = bets[b].payout, !.idempotent = TRUE]]
                    /\ cashoutTimestamps' = Stamp(user)
                    /\ GetRoundStatusEffect
                    /\ UNCHANGED <<balance, bets, roundAcct>>
             ELSE IF bets[b].status # "active"
               THEN /\ cashReq' = [cashReq EXCEPT ![c] =
                            [sent1 EXCEPT !.resp = 200, !.idempotent = TRUE]]
                    /\ cashoutTimestamps' = Stamp(user)
                    /\ GetRoundStatusEffect
                    /\ UNCHANGED <<balance, bets, roundAcct>>
             ELSE IF CashOutThrows(currentRound, user)
               THEN /\ cashReq' = [cashReq EXCEPT ![c] = [sent1 EXCEPT !.resp = 500,
                                                                       !.error = CashoutError.server]]
                    /\ GetRoundStatusEffect
                    /\ UNCHANGED <<balance, bets, cashoutTimestamps, roundAcct>>
             ELSE IF CashOutLoses(currentRound)
               THEN /\ IF currentRound.status # "crashed"
                         THEN CallMarkRoundCrashed
                         ELSE UNCHANGED <<currentRound, emitted, hCrash>>
                    /\ bets' = [bets EXCEPT ![b].status = "lost", ![b].payout = 0]
                    /\ cashReq' = [cashReq EXCEPT ![c] = [sent1 EXCEPT !.resp = 200]]
                    /\ cashoutTimestamps' = Stamp(user)
                    /\ UNCHANGED <<balance, roundAcct>>
             ELSE LET multiplier == CashOutMultiplier(currentRound)
                      payout == Payout(currentRound.players[user].betAmount, multiplier)
                  IN  /\ currentRound' = [currentRound EXCEPT
                                              !.players[user].cashedOut = TRUE,
                                              !.players[user].payout = payout]
                      /\ balance' = Credit(user, payout)
                      /\ roundAcct' = [roundAcct EXCEPT ![bets[b].round_id].credits = @ + payout]
                      /\ bets' = [bets EXCEPT ![b].status = "cashed", ![b].payout = payout,
                                              ![b].claimed_at = now]
                      /\ cashReq' = [cashReq EXCEPT ![c] =
                              [sent1 EXCEPT !.resp = 200, !.success = TRUE,
                                            !.payout = payout, !.credited = payout]]
                      /\ cashoutTimestamps' = Stamp(user)
                      /\ UNCHANGED <<emitted, hCrash>>
    /\ UNCHANGED <<now, disposed, pendingSeedObj, roundCount, randCount, seedMaster,
                   hStart, ens, rounds, seed_commits, sent, boot>>
    /\ UNCHANGED <<payVars, startReq>>

\* ---- POST /admin/bets/:betId/refund ----
\* one transaction, the bet row locked by its first query
AdminRefundBet(b) ==
    /\ bets[b] # NoBet
    /\ IF bets[b].status \in {"refunded", "cashed"}
         THEN UNCHANGED <<balance, bets, roundAcct>>
         ELSE /\ bets' = [bets EXCEPT ![b].status = "refunded"]
              /\ balance' = Credit(bets[b].user, bets[b].bet_amount)
              /\ roundAcct' = [roundAcct EXCEPT ![bets[b].round_id].credits = @ + bets[b].bet_amount]
    /\ UNCHANGED <<payVars, engVars, startReq, cashReq, cashoutTimestamps>>

NextLedger ==
    \/ \E s \in BetIds, u \in Bettors, a \in BetAmounts : StartBegin(s, u, a)
    \/ \E s \in BetIds : StartChecks(s)
    \/ \E s \in BetIds : StartCommit(s)
    \/ \E s \in BetIds : StartJoin(s)
    \/ \E s \in BetIds : StartRefund(s)
    \/ \E c \in CashIds, u \in Bettors : CashoutBegin(c, u)
    \/ \E c \in CashIds : CashoutRoundCheck(c)
    \/ \E c \in CashIds : CashoutSettle(c)

(***************************************************************************)
(* RateLimiter (rateLimiter.js)                                            *)
(***************************************************************************)
maxRequests == 2     \* opts.maxRequests (5 by default)
windowMs == 2000     \* opts.windowMs (60000 by default)
MaxChecks == 4       \* calls of check() made on the limiter

LimiterKeys == {"k1", "k2"}
NoKey == ""          \* a falsy key

\* new RateLimiter(opts): an empty store; log is what check() was called with and returned
NewLimiter == [store |-> <<>>, log |-> <<>>, op |-> "new"]

\* this.store.get(key): the entry's place in the Map's insertion order, 0 for none
StoreIndex(store, key) ==
    IF \E i \in 1..Len(store) : store[i].key = key
      THEN CHOOSE i \in 1..Len(store) : store[i].key = key
      ELSE 0

\* this.store.set(key, entry): an existing key keeps its place in the order
StoreSet(store, key, entry) ==
    IF StoreIndex(store, key) = 0 THEN Append(store, entry)
    ELSE [store EXCEPT ![StoreIndex(store, key)] = entry]

\* a check that lets one request too many through
check_OneMore(store, key) ==
    LET i == StoreIndex(store, key) IN
    IF key = NoKey
      THEN [store |-> store, allowed |-> FALSE, remaining |-> 0, resetAt |-> NoTime]
    ELSE IF i = 0 \/ now >= store[i].resetAt
      THEN [store |-> StoreSet(store, key, [key |-> key, count |-> 1, resetAt |-> now + windowMs]),
            allowed |-> TRUE, remaining |-> maxRequests - 1, resetAt |-> now + windowMs]
    ELSE IF store[i].count <= maxRequests
      THEN [store |-> [store EXCEPT ![i].count = @ + 1],
            allowed |-> TRUE, remaining |-> maxRequests - (store[i].count + 1),
            resetAt |-> store[i].resetAt]
    ELSE [store |-> store, allowed |-> FALSE, remaining |-> 0, resetAt |-> store[i].resetAt]

\* check(key): the new store and the returned object
check(store, key) ==
    LET i == StoreIndex(store, key) IN
    IF key = NoKey
      THEN [store |-> store, allowed |-> FALSE, remaining |-> 0, resetAt |-> NoTime]
    ELSE IF i = 0 \/ now >= store[i].resetAt
      THEN [store |-> StoreSet(store, key, [key |-> key, count |-> 1, resetAt |-> now + windowMs]),
            allowed |-> TRUE, remaining |-> maxRequests - 1, resetAt |-> now + windowMs]
    ELSE IF store[i].count < maxRequests
      THEN [store |-> [store EXCEPT ![i].count = @ + 1],
            allowed |-> TRUE, remaining |-> maxRequests - (store[i].count + 1),
            resetAt |-> store[i].resetAt]
    ELSE [store |-> store, allowed |-> FALSE, remaining |-> 0, resetAt |-> store[i].resetAt]

NotExpired(entry) == ~(now >= entry.resetAt)

LimiterFrame ==
    UNCHANGED <<balance, payments, req, poll, gw, wh, whCount, adminOps, direct, acct, schema,
                classified, crashCalc, engVars, betVars>>

\* a request passes the middleware: this.check(keyFn(req))
LimiterCheck(key) ==
    /\ Len(limiter.log) < MaxChecks
    /\ LET r == check(limiter.store, key) IN
       limiter' = [store |-> r.store,
                   log |-> Append(limiter.log,
                               [key |-> key, at |-> now, allowed |-> r.allowed,
                                remaining |-> r.remaining, resetAt |-> r.resetAt]),
                   op |-> "check"]
    /\ LimiterFrame

\* the prune timer: entries whose window is over go
LimiterPrune ==
    /\ limiter' = [limiter EXCEPT !.store = SelectSeq(limiter.store, NotExpired), !.op = "prune"]
    /\ LimiterFrame

\* Date.now() moves on
LimiterClock ==
    /\ now + TickStep <= MaxTime
    /\ now' = now + TickStep
    /\ UNCHANGED <<currentRound, disposed, pendingSeedObj, roundCount, randCount, seedMaster,
                   emitted, hStart, hCrash, ens, rounds, seed_commits, sent, boot>>
    /\ UNCHANGED <<balance, payVars, betVars>>

NextLimiter ==
    \/ \E key \in LimiterKeys \cup {NoKey} : LimiterCheck(key)
    \/ LimiterPrune
    \/ LimiterClock

(***************************************************************************)
(* Specifications                                                          *)
(***************************************************************************)
InitBalances == balance = [u \in Users |-> InitialBalance]

\* the payment reconciler alone, the game server not started
InitPay ==
    /\ InitBalances /\ InitPayments /\ InitEngine /\ InitLedger
    /\ seedMaster = TRUE
    /\ schema \in Schemas
    /\ classified = Unclassified("NONE")
    /\ crashCalc = NoCrashCalc
    /\ limiter = NewLimiter

\* the balance routes of users.js alone
InitUsers ==
    /\ InitBalances /\ InitPayments /\ InitEngine /\ InitLedger
    /\ seedMaster = TRUE
    /\ schema = RepoSchema
    /\ classified = Unclassified("NONE")
    /\ crashCalc = NoCrashCalc
    /\ limiter = NewLimiter

\* the game server, with or without SEED_MASTER (no payment traffic)
InitGame ==
    /\ InitBalances /\ InitPayments /\ InitEngine /\ InitLedger
    /\ seedMaster \in BOOLEAN
    /\ schema = RepoSchema
    /\ classified = Unclassified("NONE")
    /\ crashCalc = NoCrashCalc
    /\ limiter = NewLimiter

NextGame == NextServer \/ NextLedger

\* the game server with SEED_MASTER configured
InitBet ==
    /\ InitBalances /\ InitPayments /\ InitEngine /\ InitLedger
    /\ seedMaster = TRUE
    /\ schema = RepoSchema
    /\ classified = Unclassified("NONE")
    /\ crashCalc = NoCrashCalc
    /\ limiter = NewLimiter

\* the game server and the bet route, for players who send no cashout request
NextLoss ==
    \/ NextServer
    \/ \E s \in BetIds, u \in Bettors, a \in BetAmounts : StartBegin(s, u, a)
    \/ \E s \in BetIds : StartChecks(s)
    \/ \E s \in BetIds : StartCommit(s)
    \/ \E s \in BetIds : StartJoin(s)
    \/ \E s \in BetIds : StartRefund(s)

\* What the event loop and the database guarantee: start() runs to its end, a query sent
\* is answered, time passes, a timer that is due fires, a listener or a route handler
\* that awaits a query is resumed.  Requests and signals from outside (a new bet, a
\* status poll, SIGTERM) are under no obligation to come.
FairLoss ==
    /\ WF_vars(BootEnsure \/ BootPrime \/ BootStartEngine)
    /\ WF_vars(\E c \in Callers : EnsureMax(c) \/ EnsureExisting(c) \/ EnsureInsert(c))
    /\ WF_vars(Tick)
    /\ WF_vars(TimerCrash)
    /\ WF_vars(TimerNextRound)
    /\ WF_vars(BroadcastTick)
    /\ WF_vars(\E id \in Rounds : HStartPersist(id) \/ HStartBroadcast(id) \/ HStartSetNextSeed(id))
    /\ WF_vars(\E id \in Rounds : HCrashPersist(id) \/ HCrashBroadcast(id))
    /\ WF_vars(\E s \in BetIds : StartChecks(s) \/ StartCommit(s) \/ StartJoin(s) \/ StartRefund(s))

\* the game server, the bet route, one cashout request and the admin's bet refund
NextRefund ==
    \/ NextLoss
    \/ \E u \in Bettors : CashoutBegin(1, u)
    \/ CashoutRoundCheck(1)
    \/ CashoutSettle(1)
    \/ \E b \in BetIds : AdminRefundBet(b)

\* the game server with one bet request and one cashout request
NextLoop ==
    \/ NextServer
    \/ \E u \in Bettors, a \in BetAmounts : StartBegin(1, u, a)
    \/ StartChecks(1)
    \/ StartCommit(1)
    \/ StartJoin(1)
    \/ StartRefund(1)
    \/ \E u \in Bettors : CashoutBegin(1, u)
    \/ CashoutRoundCheck(1)
    \/ CashoutSettle(1)

\* the status classifications alone, for every status string of the model
InitClassify ==
    /\ InitBalances /\ InitPayments /\ InitEngine /\ InitLedger
    /\ seedMaster = TRUE
    /\ schema = RepoSchema
    /\ \E s \in GatewayStatuses : classified = Unclassified(s)
    /\ crashCalc = NoCrashCalc
    /\ limiter = NewLimiter

\* the crash point computation alone, for every hash prefix and a range of seeds
InitCrashCalc ==
    /\ InitBalances /\ InitPayments /\ InitEngine /\ InitLedger
    /\ seedMaster = TRUE
    /\ schema = RepoSchema
    /\ classified = Unclassified("NONE")
    /\ \E h \in HashPrefixes : \E seed \in CalcSeeds :
           crashCalc = [h |-> h, seed |-> seed, fromHash |-> NoResult, fromSeed |-> <<>>]
    /\ limiter = NewLimiter

(***************************************************************************)
(* gracefulShutdown (server.js) next to the payment routes and pollers     *)
(***************************************************************************)
\* boot = "down": stopBroadcastLoop and dispose are done, httpServer.close is awaited;
\* "ended": pool.end() was called; "exit": process.exit(0)
ProcessAlive == boot # "exit"
PoolOpen == boot \notin {"ended", "exit"}
RequestInFlight == \E i \in Intents : req[i].pc \notin {"none", "done"}
PollerCanTransition(i) == poll[i].pc \in {"run", "refund"}

\* httpServer.close has called back (no connection is left open): io.close(), pool.end()
ShutdownPoolEnd ==
    /\ boot = "down"
    /\ ~RequestInFlight
    /\ boot' = "ended"
    /\ UNCHANGED <<now, currentRound, disposed, pendingSeedObj, roundCount, randCount, seedMaster,
                   emitted, hStart, hCrash, ens, rounds, seed_commits, sent>>
    /\ UNCHANGED <<balance, payVars, betVars>>

\* pool.end() has resolved: process.exit(0)
ShutdownExit ==
    /\ boot = "ended"
    /\ boot' = "exit"
    /\ UNCHANGED <<now, currentRound, disposed, pendingSeedObj, roundCount, randCount, seedMaster,
                   emitted, hStart, hCrash, ens, rounds, seed_commits, sent>>
    /\ UNCHANGED <<balance, payVars, betVars>>

\* requests are accepted while the server listens and finish while the pool is open; a
\* poller's statements need the pool, and on an ended pool every one of them throws
NextShutdown ==
    \/ BootEnsure
    \/ \E c \in Callers : EnsureMax(c)
    \/ \E c \in Callers : EnsureExisting(c)
    \/ \E c \in Callers : EnsureInsert(c)
    \/ BootPrime
    \/ BootStartEngine
    \/ GracefulShutdown
    \/ ShutdownPoolEnd
    \/ ShutdownExit
    \/ \E i \in Intents, a \in Amounts : boot = "up" /\ WithdrawCheck(i, a)
    \/ \E i \in Intents : PoolOpen /\ WithdrawGateway(i)
    \/ \E i \in Intents : PoolOpen /\ WithdrawPendingCheck(i)
    \/ \E i \in Intents : PoolOpen /\ WithdrawCommit(i)
    \/ \E i \in Intents, a \in Amounts : boot = "up" /\ DepositPendingCheck(i, a)
    \/ \E i \in Intents : PoolOpen /\ DepositCommit(i)
    \/ \E i \in Intents, g \in GatewayOutcomes : ProcessAlive /\ GatewayResolve(i, g)
    \/ \E i \in Intents : ProcessAlive /\ PollStatusCheckThrows(i)
    \/ \E i \in Intents : PoolOpen /\ PollWithdrawal(i)
    \/ \E i \in Intents : PoolOpen /\ PollWithdrawalTimeoutRefund(i)
    \/ \E i \in Intents : PoolOpen /\ PollDeposit(i)

(***************************************************************************)
(* The cashout limiter under a burst: several users' requests within one   *)
(* CASHOUT_MIN_INTERVAL_MS (the clock does not advance)                    *)
(***************************************************************************)
MaxBurstReqs == 3    \* POST /game/cashout requests of the burst
BurstIds == 1..MaxBurstReqs

InitBurst ==
    /\ InitBalances /\ InitPayments /\ InitEngine
    /\ bets = [b \in BetIds |-> NoBet]
    /\ startReq = [s \in BetIds |-> StartIdle]
    /\ cashReq = [c \in BurstIds |-> CashIdle]
    /\ cashoutTimestamps = <<>>
    /\ roundAcct = [r \in Rounds |-> [debits |-> 0, credits |-> 0]]
    /\ seedMaster = TRUE
    /\ schema = RepoSchema
    /\ classified = Unclassified("NONE")
    /\ crashCalc = NoCrashCalc
    /\ limiter = NewLimiter

NextBurst ==
    \/ BootEnsure
    \/ \E c \in Callers : EnsureMax(c)
    \/ \E c \in Callers : EnsureExisting(c)
    \/ \E c \in Callers : EnsureInsert(c)
    \/ BootPrime
    \/ BootStartEngine
    \/ \E id \in Rounds : HStartPersist(id)
    \/ \E id \in Rounds : HStartBroadcast(id)
    \/ \E id \in Rounds : HStartSetNextSeed(id)
    \/ \E u \in Bettors, a \in BetAmounts : StartBegin(1, u, a)
    \/ StartChecks(1)
    \/ StartCommit(1)
    \/ StartJoin(1)
    \/ \E c \in BurstIds, u \in Users : CashoutBegin(c, u)
    \/ \E c \in BurstIds : CashoutRoundCheck(c)
    \/ \E c \in BurstIds : CashoutSettle(c)

(***************************************************************************)
(* The cashout transaction under a database that may reject a statement    *)
(***************************************************************************)
\* POST /game/cashout, winning branch: engine cashOut has marked the player, then a
\* query of the transaction (the credit, the bet update or COMMIT) rejects;
\* runTransaction rolls back and rethrows, the route answers 500.  The timestamp after
\* the transaction is not written.
CashoutSettleAborts(c) ==
    /\ cashReq[c].pc = "settle"
    /\ LET user == cashReq[c].user
           roundId == StatusNow.roundId
           found == IF roundId = Null THEN {} ELSE BetsOf(user, roundId)
           sent1 == [cashReq[c] EXCEPT !.pc = "done", !.roundId = roundId]
       IN  \E b \in found :      \* rows[0]
             /\ bets[b].status = "active"
             /\ ~CashOutThrows(currentRound, user)
             /\ ~CashOutLoses(currentRound)
             /\ LET multiplier == CashOutMultiplier(currentRound)
                    payout == Payout(currentRound.players[user].betAmount, multiplier)
                IN  currentRound' = [currentRound EXCEPT
                                         !.players[user].cashedOut = TRUE,
                                         !.players[user].payout = payout]
             /\ cashReq' = [cashReq EXCEPT ![c] = [sent1 EXCEPT !.resp = 500,
                                                                !.error = CashoutError.server]]
    /\ UNCHANGED <<now, disposed, pendingSeedObj, roundCount, randCount, seedMaster,
                   emitted, hStart, hCrash, ens, rounds, seed_commits, sent, boot>>
    /\ UNCHANGED <<balance, payVars, bets, startReq, cashoutTimestamps, roundAcct>>

NextFault ==
    \/ BootEnsure
    \/ \E c \in Callers : EnsureMax(c)
    \/ \E c \in Callers : EnsureExisting(c)
    \/ \E c \in Callers : EnsureInsert(c)
    \/ BootPrime
    \/ BootStartEngine
    \/ \E id \in Rounds : HStartPersist(id)
    \/ \E id \in Rounds : HStartBroadcast(id)
    \/ \E id \in Rounds : HStartSetNextSeed(id)
    \/ \E u \in Bettors, a \in BetAmounts : StartBegin(1, u, a)
    \/ StartChecks(1)
    \/ StartCommit(1)
    \/ StartJoin(1)
    \/ \E c \in BurstIds, u \in Bettors : CashoutBegin(c, u)
    \/ \E c \in BurstIds : CashoutRoundCheck(c)
    \/ \E c \in BurstIds : CashoutSettle(c)
    \/ \E c \in BurstIds : CashoutSettleAborts(c)

(***************************************************************************)
(* ensureNextCommitExists alone, under callers that overlap                *)
(***************************************************************************)
\* a caller (start(), a 'roundStarted' listener) calls ensureNextCommitExists(db)
EnsureCall(c) ==
    /\ ens[c].pc = "none"
    /\ ens' = [ens EXCEPT ![c].pc = "max"]
    /\ UNCHANGED <<now, currentRound, disposed, pendingSeedObj, roundCount, randCount, seedMaster,
                   emitted, hStart, hCrash, rounds, seed_commits, sent, boot>>
    /\ UNCHANGED <<balance, payVars, betVars>>

NextEnsure ==
    \/ \E c \in Callers : EnsureCall(c)
    \/ \E c \in Callers : EnsureMax(c)
    \/ \E c \in Callers : EnsureExisting(c)
    \/ \E c \in Callers : EnsureInsert(c)

(***************************************************************************)
(* The server alone over a run of MaxLongRounds rounds                     *)
(***************************************************************************)
\* Listeners are async functions awaiting the database, which answers when it answers.
\* In these runs the database is slow: it answers the 'roundStarted' listeners of
\* SlowRounds, each at any moment of the run, while the other listeners (later rounds,
\* 'roundCrashed') are still waiting for it when the clock of the run stops.
SlowRounds == 1..2

InitLong ==
    /\ InitBalances /\ InitPayments /\ InitLedger
    /\ now = 0
    /\ currentRound = NoRound
    /\ disposed = FALSE
    /\ pendingSeedObj = NoSeedObj
    /\ roundCount = 0
    /\ randCount = 0
    /\ emitted = [r \in LongRounds |-> NoEvents]
    /\ hStart = [r \in LongRounds |-> HandlerIdle]
    /\ hCrash = [r \in LongRounds |-> HandlerIdle]
    /\ ens = [c \in {0} \cup LongRounds |-> EnsIdle]
    /\ rounds = [r \in LongRounds |-> NoRoundRow]
    /\ seed_commits = [i \in 1..(MaxLongRounds + 1) |-> Null]
    /\ sent = [r \in LongRounds |-> NothingSent]
    /\ boot = "start"
    /\ seedMaster = TRUE
    /\ schema = RepoSchema
    /\ classified = Unclassified("NONE")
    /\ crashCalc = NoCrashCalc
    /\ limiter = NewLimiter

NextLong ==
    \/ BootEnsure
    \/ \E c \in {0} \cup SlowRounds : EnsureMax(c)
    \/ \E c \in {0} \cup SlowRounds : EnsureExisting(c)
    \/ \E c \in {0} \cup SlowRounds : EnsureInsert(c)
    \/ BootPrime
    \/ BootStartEngine
    \/ TickLate
    \/ TimerCrash
    \/ TimerNextRound
    \/ \E id \in SlowRounds : HStartPersist(id)
    \/ \E id \in SlowRounds : HStartBroadcast(id)
    \/ \E id \in SlowRounds : HStartSetNextSeed(id)

SpecPay == InitPay /\ [][NextPay]_vars
SpecClassify == InitClassify /\ [][NextClassify]_vars
SpecCrashCalc == InitCrashCalc /\ [][NextCrashCalc]_vars
SpecRefund == InitBet /\ [][NextRefund]_vars
SpecLoss == InitBet /\ [][NextLoss]_vars /\ FairLoss
SpecLoop == InitBet /\ [][NextLoop]_vars /\ FairLoss
SpecUsers == InitUsers /\ [][NextUsers]_vars
SpecEngine == InitGame /\ [][NextEngine]_vars
SpecShutdown == InitPay /\ [][NextShutdown]_vars
SpecBurst == InitBurst /\ [][NextBurst]_vars
SpecFault == InitBurst /\ [][NextFault]_vars
SpecLimiter == InitUsers /\ [][NextLimiter]_vars
SpecEnsure == InitGame /\ [][NextEnsure]_vars
SpecLong == InitLong /\ [][NextLong]_vars
Spec == InitBet /\ [][NextGame]_vars

(***************************************************************************)
(* Claim about the balance routes (checked under SpecUsers)                *)
(***************************************************************************)
\* C1: in every reachable state every user's balance is >= 0, also when two requests of
\* one user run concurrently.
C1_NoNegativeBalance == \A u \in Users : balance[u] >= 0

(***************************************************************************)
(* Claims about the payment reconciler (checked under SpecPay)             *)
(***************************************************************************)
IsTerminal(status) == status \in {"confirmed", "failed", "expired"}

\* net balance change made on account of intent i
NetChange(i) == (acct[i].credits + acct[i].refunds - acct[i].debits) * payments[i].amount

Settled(i) ==
    /\ poll[i].pc = "done"
    /\ ~(wh.pc = "tx" /\ wh.pid = i)

C17_TerminalIsFinal ==
    [][\A i \in Intents :
           (payments[i] # NoRow /\ IsTerminal(payments[i].status)) =>
               /\ payments'[i].status = payments[i].status
               /\ acct'[i].credits = acct[i].credits
               /\ \/ acct'[i].refunds = acct[i].refunds
                  \/ poll[i].pc = "refund" /\ poll'[i].pc = "done"]_vars

\* C18: a polling job ends within MaxPolls attempts, and when it has ended its intent
\* is confirmed, failed or expired; an expired withdrawal has been refunded (checked under
\* SpecPay).
C18_PollerEndsTerminal ==
    \A i \in Intents :
        /\ poll[i].attempt <= MaxPolls
        /\ poll[i].pc = "done" =>
               /\ IsTerminal(payments[i].status)
               /\ (payments[i].type = "withdraw" /\ payments[i].status = "expired") =>
                      acct[i].refunds >= 1

\* C19: the disbursement request of a withdrawal has been sent to the gateway only if
\* the debit of that withdrawal has committed (checked under SpecPay).
C19_DebitBeforeGateway ==
    \A i \in Intents :
        (req[i].type = "withdraw" /\ acct[i].gatewaySent) => acct[i].debits >= 1

\* the intents of one type that are pending or processing (every row of the model is
\* recent and belongs to the one paying user)
InFlight(type) ==
    {i \in Intents : payments[i].type = type /\ payments[i].status \in {"pending", "processing"}}

\* C20: at most one deposit intent and at most one withdraw intent is pending or
\* processing, and a request answered 409 has sent nothing to the gateway and debited
\* nothing, whatever the interleaving of the requests (checked under SpecPay).
C20_OneInFlightPerType ==
    /\ \A type \in {"deposit", "withdraw"} : Cardinality(InFlight(type)) <= 1
    /\ \A i \in Intents :
           req[i].resp = 409 => (~acct[i].gatewaySent /\ acct[i].debits = 0)

\* the classification the claim states, on the upper-cased string
StatedClass(s) ==
    IF Upper(s) \in {"SUCCESSFUL", "SUCCESS", "CONFIRMED", "COMPLETED", "OK"} THEN "confirmed"
    ELSE IF Upper(s) \in {"FAILED", "FAILURE", "ERROR", "REJECTED", "DECLINED"} THEN "failed"
    ELSE "pending"

\* C15: the withdrawal poller, the deposit poller and the webhook each classify a gateway
\* status string, whatever its case, as success for SUCCESSFUL, SUCCESS, CONFIRMED,
\* COMPLETED, OK, as failure for FAILED, FAILURE, ERROR, REJECTED, DECLINED, and as
\* pending for every other string (checked under SpecClassify).
C15_UniformClassification ==
    \A path \in ClassifyPaths :
        classified.class[path] # "none" =>
            classified.class[path] = StatedClass(classified.input)

\* floor((100 E - H) / (E - H)) / 100, clamped to 1.00 from below, in hundredths
CrashPointStated(h) ==
    LET E == 2 ^ HashBits
        q == (100 * E - h) \div (E - h)
    IN  IF E - h <= 0 \/ q < 100 THEN 100 ELSE q

RepeatedCashout(c1, c2) ==
    /\ c1 # c2
    /\ cashReq[c1].pc = "done" /\ cashReq[c2].pc = "done"
    /\ cashReq[c1].user = cashReq[c2].user
    /\ cashReq[c1].resp = 200 /\ cashReq[c1].success /\ ~cashReq[c1].idempotent
    /\ c1 \in cashReq[c2].afterDone
    /\ cashReq[c2].roundAt = cashReq[c1].roundId

\* the user has made one bet on the round
SingleBet(user, roundId) == Cardinality(BetsOf(user, roundId)) = 1

ActiveBets(user, roundId) == {b \in BetsOf(user, roundId) : bets[b].status = "active"}

\* C5: at most one bet with status 'active' for each (user, round).
C5_AtMostOneActiveBet ==
    \A u \in Users, r \in Rounds : Cardinality(ActiveBets(u, r)) <= 1

\* a second insert for the same (user, round) was rejected by the unique index
C5_Witness ==
    \E s \in BetIds :
        /\ startReq[s].pc = "done" /\ startReq[s].resp = 500 /\ bets[s] = NoBet
        /\ ActiveBets(startReq[s].user, startReq[s].roundId) # {}

\* C6: of two bet requests of one user for one running round that execute concurrently,
\* one succeeds and the other is answered 409; one bet row exists and the user is debited
\* once.  (Stated for a pair where the round's row was found and the funds sufficed.)
C6_ConcurrentDuplicateIs409 ==
    \A s1, s2 \in BetIds :
        ( /\ s1 # s2
          /\ s1 \in startReq[s2].overlap
          /\ startReq[s1].pc = "done" /\ startReq[s2].pc = "done"
          /\ startReq[s1].user = startReq[s2].user
          /\ startReq[s1].roundId = startReq[s2].roundId
          /\ \E w \in {s1, s2} : startReq[w].resp = 200 /\ bets[w].status = "active"
          /\ startReq[s1].resp \notin {400, 402} /\ startReq[s2].resp \notin {400, 402} ) =>
            /\ {startReq[s1].resp, startReq[s2].resp} = {200, 409}
            /\ Cardinality(BetsOf(startReq[s1].user, startReq[s1].roundId)) = 1
            /\ balance[startReq[s1].user] = InitialBalance - startReq[s1].betAmount

\* C8: for every round the engine created, the listeners saw exactly one roundStarted and,
\* once the engine has left the round, exactly one roundCrashed after it.
C8_OneStartedThenOneCrashed ==
    \A r \in Rounds :
        /\ emitted[r].roundStarted = (IF r <= roundCount THEN 1 ELSE 0)
        /\ emitted[r].roundCrashed <= 1
        /\ ~emitted[r].crashedFirst
        /\ (r <= roundCount /\ currentRound.roundId # r) => emitted[r].roundCrashed = 1

\* C8 as the engine has it: exactly one roundStarted per round, at most one roundCrashed
\* and never before it; exactly one roundCrashed for a round that has crashed or that the
\* engine left for the next round; none for a round forgotten by dispose while running.
C8_OneStartedAtMostOneCrashed ==
    \A r \in Rounds :
        /\ emitted[r].roundStarted = (IF r <= roundCount THEN 1 ELSE 0)
        /\ emitted[r].roundCrashed <= 1
        /\ ~emitted[r].crashedFirst
        /\ (currentRound.roundId = r /\ currentRound.status = "crashed") =>
               emitted[r].roundCrashed = 1
        /\ (r <= roundCount /\ currentRound.roundId # r /\ ~disposed) =>
               emitted[r].roundCrashed = 1
        /\ (currentRound.roundId = r /\ currentRound.status = "running") =>
               emitted[r].roundCrashed = 0

\* a round crashed by a cashout and a round forgotten by dispose
C8_Witness ==
    /\ disposed
    /\ roundCount = 2
    /\ emitted[1].roundStarted = 1 /\ emitted[1].roundCrashed = 1
    /\ emitted[2].roundStarted = 1 /\ emitted[2].roundCrashed = 0

\* C12: a cashout request that arrives after its round's settlement_closed_at fails with
\* SettlementClosed; one that arrives before it, the round having crashed or not, is
\* not rejected for its timing.  (A round's window is settlement_window_seconds = 300 s long;
\* the clock of the model stops before any window can end, so every request arrives
\* inside the window of the round it finds.)
C12_SettlementWindow ==
    \A c \in CashIds :
        (cashReq[c].pc = "done" /\ cashReq[c].resp # 429 /\ cashReq[c].roundAt # Null) =>
            LET closed == rounds[cashReq[c].roundAt].settlement_closed_at IN
            /\ (closed # NoTime /\ now > closed) => cashReq[c].error = CashoutError.settlementClosed
            /\ (closed = NoTime \/ now <= closed) =>
                   cashReq[c].error \notin {CashoutError.notRunning, CashoutError.settlementClosed}

RECURSIVE SumOver(_, _)
\* the sum of bets[b][field] over the bets b of the set S
SumOver(S, field) ==
    IF S = {} THEN 0
    ELSE LET b == CHOOSE x \in S : TRUE IN bets[b][field] + SumOver(S \ {b}, field)

\* every bet of round r has left the active state and no bet request for r is in flight
AllTransitionsDone(r) ==
    /\ \A b \in BetIds : bets[b].round_id = r => bets[b].status # "active"
    /\ \A s \in BetIds : startReq[s].roundId = r => startReq[s].pc = "done"

BetsOfRound(r, statuses) == {b \in BetIds : bets[b].round_id = r /\ bets[b].status \in statuses}

\* C14: for every round, once all its bets have left the active state, the credits made to
\* users on its account equal the payouts of its cashed bets (a refunded bet counting with
\* the one refund of its bet_amount) and the debits equal the bet_amounts of all its bets.
C14_Conservation ==
    \A r \in Rounds :
        AllTransitionsDone(r) =>
            /\ roundAcct[r].credits = SumOver(BetsOfRound(r, {"cashed"}), "payout")
                                      + SumOver(BetsOfRound(r, {"refunded"}), "bet_amount")
            /\ roundAcct[r].debits =
                   SumOver(BetsOfRound(r, {"cashed", "lost", "refunded"}), "bet_amount")

\* bet b was placed and joined to its round, and that round has crashed
PlacedAndCrashed(b) ==
    /\ startReq[b].pc = "done" /\ startReq[b].resp = 200
    /\ bets[b].round_id # Null
    /\ emitted[bets[b].round_id].roundCrashed > 0

\* C13: when a round crashes, every bet of it whose player sends no cashout request
\* eventually goes from active to lost with payout 0, the balance staying as debited
\* (checked under SpecLoss, where no cashout request is made; a server that is shut down
\* is excused).
C13_CrashedBetsBecomeLost ==
    \A b \in BetIds :
        (PlacedAndCrashed(b) /\ bets[b].status = "active") ~>
            \/ /\ bets[b].status = "lost" /\ bets[b].payout = 0
               /\ balance[bets[b].user] = InitialBalance - bets[b].bet_amount
            \/ boot = "down"

\* the multipliers a caller of getRoundStatus or of cashOut gets in the current state
ObservableMultipliers ==
    IF currentRound = NoRound THEN {}
    ELSE {StatusNow.multiplier, CashOutMultiplier(currentRound)}

\* C11: within one round the multipliers getRoundStatus and cashOut return never decrease
\* from one moment to the next and never exceed the round's crash point.
C11_MonotoneTimeline ==
    /\ [](\A m \in ObservableMultipliers : m <= currentRound.crashPoint)
    /\ [][currentRound'.roundId = currentRound.roundId =>
               \A m1 \in ObservableMultipliers : \A m2 \in ObservableMultipliers' : m1 <= m2]_vars

\* a round whose multiplier was cashed below the crash point and that now reports its
\* crash point, which the clock's multiplier has passed
C11_Witness ==
    \E c \in CashIds :
        /\ cashReq[c].pc = "done" /\ cashReq[c].credited > 0
        /\ currentRound.roundId = cashReq[c].roundId
        /\ currentRound.status = "crashed"
        /\ StatusNow.multiplier = currentRound.crashPoint
        /\ computeMultiplier(currentRound.startedAt) > currentRound.crashPoint

(***************************************************************************)
(* Claims about the engine and its seeds (checked under SpecEngine)        *)
(***************************************************************************)
\* C7: every persisted round with a commit index and a revealed seed s has
\* sha256(s) = seed_commits[idx].seed_hash = server_seed_hash and crash_point = derive(s),
\* with or without SEED_MASTER.
C7_CommitmentBinding ==
    \A r \in Rounds :
        (rounds[r] # NoRoundRow /\ rounds[r].commit_idx # Null /\ rounds[r].server_seed # Null) =>
            /\ sha256hex(rounds[r].server_seed) = seed_commits[rounds[r].commit_idx]
            /\ sha256hex(rounds[r].server_seed) = rounds[r].server_seed_hash
            /\ rounds[r].crash_point = computeCrashPointFromSeed(rounds[r].server_seed)

C10_CrashPointUndisclosed ==
    \A r \in Rounds :
        (currentRound.roundId = r /\ currentRound.status = "running") =>
            /\ "crashPoint" \notin DOMAIN sent[r].roundStarted
            /\ RoundDetailsEndpoint(r).status = 200 => RoundDetailsEndpoint(r).round.crash_point = Null

\* C21: once the 'roundCrashed' listener has persisted a round's crash, the row of that
\* round has a settlement_closed_at, and crash_point, ended_at and the revealed seed with it
\* (checked under SpecEngine).
C21_SettlementClosedAtSet ==
    \A id \in Rounds :
        (hCrash[id].pc \in {"broadcast", "done"} /\ rounds[id] # NoRoundRow) =>
            /\ rounds[id].ended_at # NoTime
            /\ rounds[id].server_seed # Null
            /\ rounds[id].settlement_closed_at # NoTime

\* C22 as stated: a tick of the broadcaster leaves the round's status, ended_at and
\* timers as they were (checked under SpecEngine).
C22_TickChangesNothing ==
    [][BroadcastTick =>
           /\ currentRound'.status = currentRound.status
           /\ currentRound'.endedAt = currentRound.endedAt
           /\ currentRound'.timer = currentRound.timer
           /\ currentRound'.nextRoundTimer = currentRound.nextRoundTimer]_vars

\* C22 (amended): a tick changes the engine's round in one case only: the round is running
\* and the multiplier at the tick has reached its crash point.  Then the tick marks it
\* crashed (status, ended_at, crash timer cleared, next-round timer armed) and changes
\* nothing else of it; in every other case the round is the same after the tick
\* (checked under SpecEngine).
C22_TickCrashesAtThresholdOnly ==
    [][BroadcastTick =>
           IF /\ currentRound # NoRound
              /\ currentRound.status = "running"
              /\ computeMultiplier(currentRound.startedAt) >= currentRound.crashPoint
             THEN currentRound' = [currentRound EXCEPT !.status = "crashed", !.endedAt = now,
                                                       !.timer = NoTimer,
                                                       !.nextRoundTimer = now + NEXT_ROUND_DELAY_MS]
             ELSE currentRound' = currentRound]_vars

\* a tick of a round has gone out, and the round is crashed with its crash timer not yet due
C22_Witness ==
    \E r \in Rounds :
        /\ sent[r].tickFirst
        /\ currentRound.roundId = r
        /\ currentRound.status = "crashed"
        /\ currentRound.endedAt < currentRound.startedAt + CrashDelayMs(currentRound.crashPoint)

\* C23: for every round, subscribers get the 'roundStarted' message before any tick that
\* carries the round's id and before the round's crash message, however long the
\* listeners' database calls take (checked under SpecEngine).
C23_RoundStartedMessageFirst ==
    \A r \in Rounds :
        /\ ~sent[r].tickFirst
        /\ sent[r].crash # NoPayload => sent[r].roundStarted # NoPayload

\* C24: joinRound accepts a player only at a time when the multiplier of the round is below
\* its crash point, whether or not the crash timer has run (checked under Spec).
C24_NoJoinAtOrAboveCrashPoint ==
    [][\A u \in Users :
           (/\ currentRound # NoRound
            /\ currentRound'.roundId = currentRound.roundId
            /\ ~currentRound.players[u].joined
            /\ currentRound'.players[u].joined) =>
               computeMultiplier(currentRound.startedAt) < currentRound.crashPoint]_vars

\* C25: a call of joinRound succeeds exactly when there is a current round, it is running
\* and the player is not in its player set; then the player is added with the bet amount
\* and cashedOut = false and nothing else of the round changes; a call that fails leaves
\* the round, its player set included, as it was (checked under Spec).
C25_JoinOnceWhileRunning ==
    [][\A s \in BetIds :
           (startReq[s].pc = "join" /\ startReq'[s].pc # "join") =>
               LET u == startReq[s].user IN
               IF /\ currentRound # NoRound
                  /\ currentRound.status = "running"
                  /\ ~currentRound.players[u].joined
                 THEN /\ startReq'[s].resp = 200
                      /\ currentRound' = [currentRound EXCEPT !.players[u] =
                             [joined |-> TRUE, betAmount |-> startReq[s].betAmount,
                              cashedOut |-> FALSE, payout |-> 0]]
                 ELSE /\ startReq'[s].pc = "refund"
                      /\ currentRound' = currentRound]_vars

\* a call of joinRound has failed for a player who is in the running round already
C25_Witness ==
    \E s \in BetIds :
        /\ startReq[s].pc = "refund"
        /\ currentRound # NoRound
        /\ currentRound.status = "running"
        /\ currentRound.roundId = startReq[s].roundId
        /\ currentRound.players[startReq[s].user].joined

\* a cashout request whose settlement called engine cashOut and got a result
EngineCashOutReturns(c) ==
    /\ cashReq[c].pc = "settle"
    /\ cashReq'[c].pc = "done"
    /\ cashReq'[c].resp = 200
    /\ ~cashReq'[c].idempotent

\* C26: engine cashOut wins only for a running round whose multiplier at the call is below
\* the crash point; then the player is marked cashed out and the payout is the bet amount
\* times that multiplier, rounded to two decimals.  Otherwise the round is crashed after
\* the call, the result is a loss with payout 0 at the crash point, and the player's entry
\* is as it was.  No player wins twice in one round (checked under Spec).
C26_CashOutWinsBelowCrashPoint ==
    /\ [][\A c \in CashIds :
              EngineCashOutReturns(c) =>
                  LET u == cashReq[c].user
                      m == computeMultiplier(currentRound.startedAt)
                  IN  IF currentRound.status = "running" /\ m < currentRound.crashPoint
                        THEN /\ cashReq'[c].success
                             /\ cashReq'[c].payout = Payout(currentRound.players[u].betAmount, m)
                             /\ currentRound'.players[u].cashedOut
                             /\ currentRound'.status = "running"
                        ELSE /\ ~cashReq'[c].success
                             /\ cashReq'[c].payout = 0
                             /\ cashReq'[c].credited = 0
                             /\ currentRound'.status = "crashed"
                             /\ currentRound'.players = currentRound.players]_vars
    /\ [](\A c1 \in CashIds : \A c2 \in CashIds :
              (/\ cashReq[c1].credited > 0 /\ cashReq[c2].credited > 0
               /\ cashReq[c1].user = cashReq[c2].user
               /\ cashReq[c1].roundId = cashReq[c2].roundId) => c1 = c2)

\* a cashout at multiplier 2.00 has won 10.00 on a bet of 5.00 in a round that is still
\* running
C26_Witness ==
    \E c \in CashIds :
        /\ cashReq[c].pc = "done" /\ cashReq[c].success
        /\ cashReq[c].credited = 10 * Kwacha
        /\ currentRound.status = "running"
        /\ currentRound.players[cashReq[c].user].cashedOut

\* the last time the clock of the model reaches
LastTick == (MaxTime \div TickStep) * TickStep

\* C27: once a round is crashed, no later crash trigger (timer, status read, tick, cashout)
\* changes its status, its ended_at or its next-round timer, or emits another
\* 'roundCrashed'; a crashed round of an engine that is not disposed has its one
\* next-round timer armed for ended_at plus the gap; the next round starts no earlier
\* than that; and every crashed round is followed by a new running round unless the engine
\* is disposed.  The last is stated for the crashed rounds whose next-round timer falls
\* within the time and the number of rounds the model covers (checked under SpecLoop).
C27_CrashOnceThenNextRound ==
    /\ [][\A r \in Rounds :
              (/\ currentRound.roundId = r /\ currentRound.status = "crashed"
               /\ currentRound'.roundId = r) =>
                  /\ currentRound'.status = "crashed"
                  /\ currentRound'.endedAt = currentRound.endedAt
                  /\ currentRound'.nextRoundTimer = currentRound.nextRoundTimer
                  /\ emitted'[r].roundCrashed = emitted[r].roundCrashed]_vars
    /\ []((currentRound # NoRound /\ currentRound.status = "crashed") =>
              /\ currentRound.nextRoundTimer = currentRound.endedAt + NEXT_ROUND_DELAY_MS
              /\ emitted[currentRound.roundId].roundCrashed = 1)
    /\ [](\A r \in Rounds :
              (r > 1 /\ currentRound.roundId = r) =>
                  currentRound.startedAt >= hCrash[r - 1].r.endedAt + NEXT_ROUND_DELAY_MS)
    /\ \A r \in Rounds :
           (/\ r < MaxRounds
            /\ currentRound.roundId = r /\ currentRound.status = "crashed"
            /\ currentRound.nextRoundTimer <= LastTick)
               ~> (disposed \/ (currentRound.roundId = r + 1 /\ currentRound.status = "running"))

\* round 2 is running, started by the next-round timer of the crashed round 1
C27_Witness ==
    /\ currentRound.roundId = 2
    /\ currentRound.status = "running"
    /\ emitted[1].roundCrashed = 1
    /\ ~disposed

\* C28: once the engine is disposed it has no current round (and so no timer), holds no
\* seed, the pending next seed included, emits no 'roundStarted' or 'roundCrashed' and
\* creates no round, also when a seed-priming listener finishes after the dispose
\* (checked under SpecEngine).
C28_DisposedEngineHoldsNothing ==
    /\ [](disposed => (currentRound = NoRound /\ pendingSeedObj = NoSeedObj))
    /\ [][disposed => (emitted' = emitted /\ roundCount' = roundCount)]_vars

\* C29: the connection-less server ends the DB pool only after the in-flight payment
\* intents were waited for: the pool is never ended (and the process never exits) while a
\* polling job can still perform a transition (checked under SpecShutdown).
C29_PoolOpenWhilePolling ==
    ~PoolOpen => \A i \in Intents : ~PollerCanTransition(i)

\* request s committed its bet, joinRound threw, and the route has answered
JoinFailed(s) ==
    /\ startReq[s].pc = "done"
    /\ bets[s] # NoBet
    /\ startReq[s].joined = Null

\* C30: when the ledger transaction of a bet commits and the engine join then fails, the
\* route's compensation leaves the bet 'refunded' (so never 'active' outside the engine's
\* player set) and, no other bet of the user existing, the balance where it was before the
\* request (checked under SpecRefund).
C30_JoinFailureCompensated ==
    \A s \in BetIds :
        JoinFailed(s) =>
            /\ bets[s].status = "refunded"
            /\ (\A t \in BetIds \ {s} : bets[t] = NoBet) =>
                   balance[bets[s].user] = InitialBalance

\* C31: a bet request is rejected whenever a bet of that user for that round exists,
\* whatever its status, so the bets table never holds two bets of one user for one round.
C31_OneBetPerUserAndRound ==
    \A u \in Bettors : \A r \in Rounds : Cardinality(BetsOf(u, r)) <= 1

BetsOfUser(u, statuses) == {b \in BetIds : bets[b].user = u /\ bets[b].status \in statuses}

\* C32: whatever the interleaving of admin refunds and the join-failure compensation, a
\* bet is refunded at most its bet_amount: a user's balance never exceeds the initial
\* balance less the stakes of the bets that are active, lost or cashed plus the payouts
\* of the cashed ones, a refunded bet counting for nothing (checked under SpecRefund).
C32_RefundNeverExceedsBet ==
    \A u \in Bettors :
        balance[u] <= InitialBalance
                      - SumOver(BetsOfUser(u, {"active", "lost", "cashed"}), "bet_amount")
                      + SumOver(BetsOfUser(u, {"cashed"}), "payout")

\* C33: every cashed bet has a positive payout and claimed_at set and was credited by a
\* cashout request that paid exactly its payout, and every cashout request that credited
\* a payout left a bet of that user and round cashed with that payout, whatever the user
\* and the admin do (checked under SpecRefund).
C33_CashedIffCredited ==
    /\ \A b \in BetIds :
           bets[b].status = "cashed" =>
               /\ bets[b].payout > 0
               /\ bets[b].claimed_at # NoTime
               /\ \E c \in CashIds : /\ cashReq[c].pc = "done"
                                     /\ cashReq[c].user = bets[b].user
                                     /\ cashReq[c].credited = bets[b].payout
    /\ \A c \in CashIds :
           (cashReq[c].pc = "done" /\ cashReq[c].credited > 0) =>
               \E b \in BetsOf(cashReq[c].user, cashReq[c].roundId) :
                   bets[b].status = "cashed" /\ bets[b].payout = cashReq[c].credited

\* cashout request c was let through by the limiter (it went on to the engine and ledger)
LetThrough(c) == cashReq[c].pc # "none" /\ cashReq[c].resp # 429

\* C34: two cashout attempts of one user that are let through to the engine and the ledger
\* are at least CASHOUT_MIN_INTERVAL_MS apart, also when the map is pruned: of the requests
\* a user sends within one interval at most one is let through (checked under SpecBurst).
C34_OneCashoutPerInterval ==
    \A c \in BurstIds : \A d \in BurstIds :
        (c # d /\ LetThrough(c) /\ LetThrough(d)) => cashReq[c].user # cashReq[d].user

RECURSIVE WindowAfter(_, _)
\* the window of a key after the first n checks of the log, from the times of the checks
\* alone: when it ends and how many checks it has allowed
WindowAfter(key, n) ==
    IF n = 0 THEN [resetAt |-> NoTime, allowed |-> 0]
    ELSE LET prev == WindowAfter(key, n - 1)
             e == limiter.log[n]
         IN  IF e.key # key THEN prev
             ELSE IF prev.resetAt = NoTime \/ e.at >= prev.resetAt
               THEN [resetAt |-> e.at + windowMs, allowed |-> 1]
             ELSE [prev EXCEPT !.allowed = IF e.allowed THEN @ + 1 ELSE @]

\* the n-th check is the first of its key, or the first at or after the window's end
StartsWindow(n) ==
    LET prev == WindowAfter(limiter.log[n].key, n - 1)
    IN  prev.resetAt = NoTime \/ limiter.log[n].at >= prev.resetAt

\* C35: for every key, a window allows at most maxRequests checks, an allowed check
\* returns remaining = maxRequests less the checks allowed so far in the window, and the
\* first check at or after reset_at is allowed and starts a new window with count 1
\* (checked under SpecLimiter).
C35_WindowAllowsMaxRequests ==
    \A n \in 1..Len(limiter.log) :
        LET e == limiter.log[n]
            w == WindowAfter(e.key, n)
        IN  e.key # NoKey =>
                /\ w.allowed <= maxRequests
                /\ e.resetAt = w.resetAt
                /\ e.allowed => e.remaining = maxRequests - w.allowed
                /\ StartsWindow(n) => e.allowed /\ e.remaining = maxRequests - 1

\* a key used up its window, was refused, and was allowed again once the window was over
C35_Witness ==
    \E n \in 1..Len(limiter.log) : \E m \in 1..Len(limiter.log) :
        /\ n < m
        /\ limiter.log[n].key = limiter.log[m].key
        /\ ~limiter.log[n].allowed
        /\ limiter.log[m].allowed
        /\ limiter.log[n].resetAt = limiter.log[m].at

\* C36: every in-memory map is bounded: the cashout map holds at most MAX_CASHOUT_ENTRIES
\* entries, and after a prune the rate limiter's store holds fewer entries than there are
\* distinct keys sending requests, the oldest-inserted ones having been dropped (checked
\* under SpecLimiter).
C36_MapsBounded ==
    /\ Len(cashoutTimestamps) <= MAX_CASHOUT_ENTRIES
    /\ limiter.op = "prune" => Len(limiter.store) < Cardinality(LimiterKeys)

\* C37: ensureNextCommitExists is idempotent under concurrent callers: whatever a caller
\* returns is the row that seed_commits holds for that idx (checked under SpecEnsure).
C37_EnsureReturnsPersistedRow ==
    \A c \in Callers :
        ens[c].pc = "ret" => seed_commits[ens[c].ret.idx] = ens[c].ret.seed_hash

\* C38: no two rounds consume the same seed commitment: the commit_idx values of the
\* rounds created, where not null, are strictly increasing, however the 'roundStarted'
\* listeners that prime the next seed interleave (checked under SpecLong).
C38_CommitIdxIncreases ==
    \A r1 \in DOMAIN hStart : \A r2 \in DOMAIN hStart :
        (/\ r1 < r2
         /\ hStart[r1].pc # "none" /\ hStart[r2].pc # "none"
         /\ hStart[r1].r.commitIdx # Null /\ hStart[r2].r.commitIdx # Null)
            => hStart[r1].r.commitIdx < hStart[r2].r.commitIdx

\* C39: for every successful bet request the round_id stored on the ledger bet row is the
\* id of the round the player was joined to in the engine, even when the round seen
\* before the transaction crashed and a new round started meanwhile.
C39_BetRowNamesJoinedRound ==
    \A s \in BetIds :
        (startReq[s].pc = "done" /\ startReq[s].resp = 200)
            => bets[s].round_id = startReq[s].joined

\* a request of the user is between its arrival and its response
CashoutInFlight(u) ==
    \E c \in DOMAIN cashReq : cashReq[c].user = u /\ cashReq[c].pc \notin {"none", "done"}

\* C40: engine and ledger agree on cashouts: when the engine has marked a player cashed
\* out for the round and no cashout request of that player is in flight, the ledger
\* bet of the player for that round is cashed with the same payout and a request has
\* credited it; a rolled-back transaction does not leave the player marked with the
\* bet still active (checked under SpecFault).
C40_EngineAndLedgerAgree ==
    \A u \in Bettors :
        (/\ currentRound # NoRound
         /\ currentRound.players[u].cashedOut
         /\ ~CashoutInFlight(u))
            => \E b \in BetsOf(u, currentRound.roundId) :
                   /\ bets[b].status = "cashed"
                   /\ bets[b].payout = currentRound.players[u].payout
                   /\ \E c \in DOMAIN cashReq :
                          /\ cashReq[c].pc = "done" /\ cashReq[c].user = u
                          /\ cashReq[c].credited = bets[b].payout

====
